---- MODULE Spec2Model ----
(***************************************************************************)
(* A model of the safety-scoring core of saferoute-backend:                *)
(*   - calculateSafetyScore (utils/calculateSafetyScore.js),               *)
(*   - scoreAndTagResults / ensureSafetyCells (routes/routeRoutes.js),     *)
(*   - POST /update and POST /map-nearest-police (routes/safetyRoutes.js), *)
(*   - the SafetyScore collection (models/SafetyScore.js).                 *)
(* Scores are kept in hundredths (5.00 is 500), factor values are          *)
(* integers, and a JavaScript value that may be missing is a sequence of   *)
(* length 0 (missing) or 1 (present).                                      *)
(***************************************************************************)
EXTENDS Integers, Sequences, FiniteSets, TLC

None == <<>>
Some(v) == <<v>>
IsSome(o) == Len(o) = 1
Val(o) == o[1]

Min2(a, b) == IF a < b THEN a ELSE b
Max2(a, b) == IF a > b THEN a ELSE b

RECURSIVE SumSeq(_)
SumSeq(s) == IF s = <<>> THEN 0 ELSE Head(s) + SumSeq(Tail(s))

(***************************************************************************)
(* calculateSafetyScore                                                    *)
(***************************************************************************)

\* `for (const k in weights)`: the keys of weights in insertion order.
FactorNames == <<"lighting", "crowd", "police", "incidents", "accidents">>

FactorSet == {FactorNames[i] : i \in 1..Len(FactorNames)}

\* weights, in hundredths.
weights == [lighting |-> 25, crowd |-> 20, police |-> 25, incidents |-> 20, accidents |-> 10]

\* A factors object is a function from the keys it has to their values;
\* calculateSafetyScore(undefined) reads like calculateSafetyScore({}).
EmptyFactors == [k \in {} |-> 0]

\* readFactor with a neutral default of 0 in place of 5.
readFactorDefaultZero(factors, k) ==
  IF k \in DOMAIN factors /\ factors[k] # 0 THEN factors[k] ELSE 0

\* (factors && factors[k]) || 5 : a missing key and the falsy value 0 both give 5.
readFactor(factors, k) ==
  IF k \in DOMAIN factors /\ factors[k] # 0 THEN factors[k] ELSE 5

\* clamp without the range check.
clampNone(v) == v

\* Math.max(0, Math.min(10, v))
clamp(v) == Max2(0, Min2(10, v))

\* One term of the loop body: the clamped value, inverted for the risk factors.
factorTerm(factors, k) ==
  LET v == clamp(readFactor(factors, k))
  IN  IF k \in {"incidents", "accidents"} THEN 10 - v ELSE v

\* +(num / den).toFixed(2), in hundredths, for num/den that is not an exact
\* tie between two hundredths in binary floating point: the nearest hundredth.
\* On an exact decimal tie the double nearest to num/den lies on either side,
\* so `up` picks the side.
toFixed2(num, den, up) ==
  LET q == (num * 100) \div den
      r == (num * 100) % den
  IN  IF 2 * r > den THEN q + 1
      ELSE IF 2 * r < den THEN q
      ELSE IF up THEN q + 1 ELSE q

\* total and wsum, with the weights in hundredths: total / wsum is the score.
calculateSafetyScore(factors) ==
  LET total == SumSeq([i \in 1..Len(FactorNames) |->
                         factorTerm(factors, FactorNames[i]) * weights[FactorNames[i]]])
      wsum  == SumSeq([i \in 1..Len(FactorNames) |-> weights[FactorNames[i]]])
  IN  toFixed2(total, wsum, TRUE)

\* The second definition of calculateSafetyScore: the same loop without the
\* inversion of incidents and accidents.
calculateSafetyScore2(factors) ==
  LET total == SumSeq([i \in 1..Len(FactorNames) |->
                         clamp(readFactor(factors, FactorNames[i])) * weights[FactorNames[i]]])
      wsum  == SumSeq([i \in 1..Len(FactorNames) |-> weights[FactorNames[i]]])
  IN  toFixed2(total, wsum, TRUE)

(***************************************************************************)
(* geohashUtils: encode(lat, lng) = ngeohash.encode(lat, lng, precision),  *)
(* and ngeohash.decode_bbox. Coordinates are counted in half cells: a      *)
(* longitude in -LonHalf..LonHalf stands for -180..180, a latitude in      *)
(* -LatHalf..LatHalf for -90..90; every midpoint of the bisection is an    *)
(* even number, an odd coordinate lies strictly inside its cell.           *)
(***************************************************************************)

precision == 7

\* 5 bits a character, longitude first: 18 longitude bits and 17 latitude bits.
LonHalf == 2 ^ ((5 * precision + 1) \div 2)
LatHalf == 2 ^ ((5 * precision) \div 2)

\* BASE32_CODES
Base32 ==
  <<"0", "1", "2", "3", "4", "5", "6", "7", "8", "9", "b", "c", "d", "e", "f", "g",
    "h", "j", "k", "m", "n", "p", "q", "r", "s", "t", "u", "v", "w", "x", "y", "z">>

\* The bits of the hash after the first n: the range is halved, longitude on
\* the even bits and latitude on the odd ones, the bit is 1 above the midpoint.
RECURSIVE encodeBits(_, _, _, _, _, _, _)
encodeBits(lat, lng, minLat, maxLat, minLon, maxLon, n) ==
  IF n = 5 * precision THEN <<>>
  ELSE IF n % 2 = 0
  THEN LET mid == (maxLon + minLon) \div 2 IN
       IF lng > mid
       THEN <<1>> \o encodeBits(lat, lng, minLat, maxLat, mid, maxLon, n + 1)
       ELSE <<0>> \o encodeBits(lat, lng, minLat, maxLat, minLon, mid, n + 1)
  ELSE LET mid == (maxLat + minLat) \div 2 IN
       IF lat > mid
       THEN <<1>> \o encodeBits(lat, lng, mid, maxLat, minLon, maxLon, n + 1)
       ELSE <<0>> \o encodeBits(lat, lng, minLat, mid, minLon, maxLon, n + 1)

\* The characters of a bit sequence, 5 bits each, most significant first.
charsOfBits(bits) ==
  [j \in 1..(Len(bits) \div 5) |->
     Base32[1 + SumSeq([i \in 1..5 |-> bits[5 * (j - 1) + i] * (2 ^ (5 - i))])]]

\* encode called with its arguments in the other order.
encodeSwapped(lat, lng) ==
  charsOfBits(encodeBits(lng, lat, 0 - LatHalf, LatHalf, 0 - LonHalf, LonHalf, 0))

encode(lat, lng) ==
  charsOfBits(encodeBits(lat, lng, 0 - LatHalf, LatHalf, 0 - LonHalf, LonHalf, 0))

\* BASE32_CODES_DICT[c]
codeOf(c) == (CHOOSE i \in 1..Len(Base32) : Base32[i] = c) - 1

\* decode_bbox from bit n on: the range is halved by each bit of each character.
RECURSIVE decodeBits(_, _, _, _, _, _)
decodeBits(hash, minLat, maxLat, minLon, maxLon, n) ==
  IF n = 5 * Len(hash) THEN <<minLat, minLon, maxLat, maxLon>>
  ELSE LET bit == (codeOf(hash[n \div 5 + 1]) \div (2 ^ (4 - (n % 5)))) % 2 IN
       IF n % 2 = 0
       THEN LET mid == (maxLon + minLon) \div 2 IN
            IF bit = 1 THEN decodeBits(hash, minLat, maxLat, mid, maxLon, n + 1)
            ELSE decodeBits(hash, minLat, maxLat, minLon, mid, n + 1)
       ELSE LET mid == (maxLat + minLat) \div 2 IN
            IF bit = 1 THEN decodeBits(hash, mid, maxLat, minLon, maxLon, n + 1)
            ELSE decodeBits(hash, minLat, mid, minLon, maxLon, n + 1)

\* ngeohash.decode_bbox(areaId): [minLat, minLon, maxLat, maxLon]
decode_bbox(hash) == decodeBits(hash, 0 - LatHalf, LatHalf, 0 - LonHalf, LonHalf, 0)

(***************************************************************************)
(* scoreAndTagResults: the computation after the cells have been fetched   *)
(***************************************************************************)

SeqToSet(s) == {s[i] : i \in 1..Len(s)}

\* Array.from(new Set(...)): the elements of s in first-occurrence order.
RECURSIVE Dedup(_)
Dedup(s) ==
  IF s = <<>> THEN <<>>
  ELSE LET init == Dedup(SubSeq(s, 1, Len(s) - 1))
           x    == s[Len(s)]
       IN  IF x \in SeqToSet(init) THEN init ELSE Append(init, x)

RECURSIVE Flatten(_)
Flatten(ss) == IF ss = <<>> THEN <<>> ELSE Head(ss) \o Flatten(Tail(ss))

\* allHashes / hashArray: the union of the routes' areaIds.
unionHashes(results) == Dedup(Flatten([i \in 1..Len(results) |-> results[i].areaIds]))

\* colorFromScore; the score is None for "N/A".
colorFromScore(score) ==
  IF ~IsSome(score) THEN "gray"
  ELSE IF Val(score) >= 750 THEN "green"
  ELSE IF Val(score) >= 500 THEN "yellow"
  ELSE "red"

\* buildScoreMap with 0 in place of 5 for a document without a numeric score.
buildScoreMapZero(cells) ==
  [id \in {cells[i].areaId : i \in 1..Len(cells)} |->
     LET last == CHOOSE i \in 1..Len(cells) :
                   /\ cells[i].areaId = id
                   /\ \A j \in (i + 1)..Len(cells) : cells[j].areaId # id
     IN  IF IsSome(cells[last].score) THEN Val(cells[last].score) ELSE 0]

\* scoreMap: for (const c of cells) scoreMap.set(c.areaId, number ? c.score : 5);
\* a later document with the same areaId replaces an earlier one.
buildScoreMap(cells) ==
  [id \in {cells[i].areaId : i \in 1..Len(cells)} |->
     LET last == CHOOSE i \in 1..Len(cells) :
                   /\ cells[i].areaId = id
                   /\ \A j \in (i + 1)..Len(cells) : cells[j].areaId # id
     IN  IF IsSome(cells[last].score) THEN Val(cells[last].score) ELSE 500]

\* scoreMap.has(id) ? scoreMap.get(id) : 5
lookupScore(scoreMap, id) == IF id \in DOMAIN scoreMap THEN scoreMap[id] ELSE 500

\* The per-route loop body: safety_score, color, created_cells_count, created_cells.
scoreRoute(r, scoreMap, createdSet, up) ==
  LET ids == r.areaIds IN
  IF Len(ids) = 0
  THEN [r EXCEPT !.safety_score = None, !.color = colorFromScore(None)]
  ELSE LET total == SumSeq([i \in 1..Len(ids) |-> lookupScore(scoreMap, ids[i])])
           count == Len(ids)
           avg   == Some(toFixed2(total, 100 * count, up))
           createdList == SelectSeq(ids, LAMBDA id : id \in createdSet)
       IN  [r EXCEPT !.safety_score = avg,
                     !.color = colorFromScore(avg),
                     !.created_cells_count = Len(createdList),
                     !.created_cells = SubSeq(createdList, 1, Min2(50, Len(createdList)))]

\* numericScores.reduce((best, cur) => (cur.v > best.v ? cur : best), { i: -1, v: -Infinity }).i
\* over 1-based indices, 0 standing for -1; a value of None is -Infinity.
RECURSIVE reduceMax(_, _, _)
reduceMax(vals, i, best) ==
  IF i > Len(vals) THEN best
  ELSE reduceMax(vals, i + 1,
         IF IsSome(vals[i]) /\ (best = 0 \/ Val(vals[i]) > Val(vals[best]))
         THEN i ELSE best)

\* durationVals.reduce((best, cur) => (cur.v < best.v ? cur : best), { i: -1, v: Infinity }).i
\* over 1-based indices, 0 standing for -1; a value of None is Infinity.
RECURSIVE reduceMin(_, _, _)
reduceMin(vals, i, best) ==
  IF i > Len(vals) THEN best
  ELSE reduceMin(vals, i + 1,
         IF IsSome(vals[i]) /\ (best = 0 \/ Val(vals[i]) < Val(vals[best]))
         THEN i ELSE best)

\* reduceMax with >= for >: on a tie the last route wins.
RECURSIVE reduceMaxLast(_, _, _)
reduceMaxLast(vals, i, best) ==
  IF i > Len(vals) THEN best
  ELSE reduceMaxLast(vals, i + 1,
         IF IsSome(vals[i]) /\ (best = 0 \/ Val(vals[i]) >= Val(vals[best]))
         THEN i ELSE best)

\* safestIndexOf with the tie going to the last route.
safestIndexOfLast(results) ==
  reduceMaxLast([i \in 1..Len(results) |-> results[i].safety_score], 1, 0)

safestIndexOf(results) ==
  reduceMax([i \in 1..Len(results) |-> results[i].safety_score], 1, 0)

fastestIndexOf(results) ==
  reduceMin([i \in 1..Len(results) |-> results[i].duration], 1, 0)

shortestIndexOf(results) ==
  reduceMin([i \in 1..Len(results) |-> results[i].distance], 1, 0)

\* The tagging loop.
tagResults(results) ==
  [i \in 1..Len(results) |->
     [results[i] EXCEPT !.tags =
        (IF i = safestIndexOf(results) THEN <<"safest">> ELSE <<>>)
        \o (IF i = fastestIndexOf(results) THEN <<"fastest">> ELSE <<>>)
        \o (IF i = shortestIndexOf(results) THEN <<"shortest">> ELSE <<>>)]]

\* scoreAndTagResults once `cells` (the re-query) and `missing` (from
\* ensureSafetyCells) are known; ups[i] is the side route i's mean rounds to on a tie.
scoreAndTag(results, cells, missing, ups) ==
  LET scoreMap == buildScoreMap(cells)
      scored   == [i \in 1..Len(results) |->
                     scoreRoute(results[i], scoreMap, SeqToSet(missing), ups[i])]
  IN  tagResults(scored)

\* An item as processProviderRoutes pushes it.
ResultItem(areaIds, distance, duration) ==
  [areaIds |-> areaIds, distance |-> distance, duration |-> duration,
   created_cells_count |-> 0, created_cells |-> <<>>,
   safety_score |-> None, color |-> "", tags |-> <<>>]

(***************************************************************************)
(* processProviderRoutes: from the provider's routes to result items       *)
(***************************************************************************)

\* An encoded polyline is a sequence of tokens: "A", "B" and "bs" (a lone
\* backslash) are groups polyline.decode reads as one point each; "bsbs" is a
\* doubled backslash, "uesc" a JSON \u escape of a group, "{" and "}" braces,
\* "!" text no recovery turns into a polyline.
PointTokens == {"A", "B", "bs"}

\* encode(lat, lng) of the point a group decodes to: the cell it lies in.
cellOfToken(t) == IF t = "A" THEN "a1" ELSE "a2"

\* tryDecode: the points of polyline.decode(str), null when it throws or gives
\* no point.
tryDecode(str) ==
  IF str # <<>> /\ \A i \in 1..Len(str) : str[i] \in PointTokens
  THEN Some([i \in 1..Len(str) |-> cellOfToken(str[i])])
  ELSE None

\* The text with its braces left on.
keepBraces(str) == str

\* if (cleaned.startsWith('{') && cleaned.endsWith('}')) cleaned = cleaned.slice(1, -1)
stripBraces(str) ==
  IF Len(str) >= 2 /\ str[1] = "{" /\ str[Len(str)] = "}"
  THEN SubSeq(str, 2, Len(str) - 1)
  ELSE str

\* cleaned.replace(/\\\\/g, '\\'): every doubled backslash becomes a single one.
collapseBackslashes(str) ==
  [i \in 1..Len(str) |-> IF str[i] = "bsbs" THEN "bs" ELSE str[i]]

\* JSON.parse('"' + encoded + '"'): escapes are resolved; a lone backslash is
\* an invalid escape and the parse throws (None).
jsonUnescape(str) ==
  IF \E i \in 1..Len(str) : str[i] = "bs" THEN None
  ELSE Some([i \in 1..Len(str) |->
               IF str[i] = "bsbs" THEN "bs"
               ELSE IF str[i] = "uesc" THEN "A"
               ELSE str[i]])

\* tryDecodePolyline: as it is, without its braces and doubled backslashes,
\* JSON-unescaped; { pts: [], encoded } when all three fail.
tryDecodePolyline(encoded) ==
  LET first     == tryDecode(encoded)
      cleaned   == collapseBackslashes(stripBraces(encoded))
      second    == tryDecode(cleaned)
      unescaped == jsonUnescape(encoded)
      third     == IF IsSome(unescaped) THEN tryDecode(Val(unescaped)) ELSE None
  IN  IF IsSome(first) THEN [pts |-> Val(first), encoded |-> encoded]
      ELSE IF IsSome(second) THEN [pts |-> Val(second), encoded |-> cleaned]
      ELSE IF IsSome(third) THEN [pts |-> Val(third), encoded |-> Val(unescaped)]
      ELSE [pts |-> <<>>, encoded |-> encoded]

\* The fields of a provider route that hold an encoded polyline as a string.
PolylineFields ==
  {"polyline", "polyline.encodedPolyline", "polyline.encodedPolyline.polyline",
   "polyline.points", "overview_polyline.points", "encodedPolyline"}

\* A route of the provider: the field its polyline text is in ("none" when it
\* has no such field), the text, distanceMeters and the duration's seconds.
ProviderRoute(field, text, distanceMeters, seconds) ==
  [field |-> field, text |-> text, distanceMeters |-> distanceMeters, seconds |-> seconds]

\* extractEncodedPolyline that finds the field whatever the route holds.
extractEncodedPolylineAny(route) == Some(route.text)

\* extractEncodedPolyline: the first string among the known fields, else null.
extractEncodedPolyline(route) ==
  IF route.field \in PolylineFields THEN Some(route.text) ELSE None

formatDistance(r) == r.distanceMeters

formatDuration(r) == r.seconds

\* Math.round((dist.value / 1000) / avgKmph * 3600) at the default 30 km/h.
estimateSeconds(meters) == (6 * meters + 25) \div 50

\* The item processProviderRoutes pushes for a route whose polyline text is encodedRaw.
normalizeRoute(route, encodedRaw) ==
  LET dec  == tryDecodePolyline(encodedRaw)
      dist == formatDistance(route)
      dur  == formatDuration(route)
      est  == IF ~IsSome(dur) /\ IsSome(dist) THEN Some(estimateSeconds(Val(dist))) ELSE dur
  IN  ResultItem(Dedup(dec.pts), dist, est)
      @@ [polyline |-> dec.encoded, decoded_point_count |-> Len(dec.pts)]

\* processProviderRoutes that also skips a route whose polyline gives no point.
RECURSIVE processProviderRoutesDropping(_)
processProviderRoutesDropping(routes) ==
  IF routes = <<>> THEN <<>>
  ELSE LET route      == Head(routes)
           encodedRaw == extractEncodedPolyline(route)
       IN  IF ~IsSome(encodedRaw) \/ Val(encodedRaw) = <<>>
              \/ tryDecodePolyline(Val(encodedRaw)).pts = <<>>
           THEN processProviderRoutesDropping(Tail(routes))
           ELSE <<normalizeRoute(route, Val(encodedRaw))>>
                \o processProviderRoutesDropping(Tail(routes))

\* processProviderRoutes: a route without polyline text is skipped (continue),
\* every other one gives an item, in the provider's order.
RECURSIVE processProviderRoutes(_)
processProviderRoutes(routes) ==
  IF routes = <<>> THEN <<>>
  ELSE LET route      == Head(routes)
           encodedRaw == extractEncodedPolyline(route)
       IN  IF ~IsSome(encodedRaw) \/ Val(encodedRaw) = <<>>
           THEN processProviderRoutes(Tail(routes))
           ELSE <<normalizeRoute(route, Val(encodedRaw))>> \o processProviderRoutes(Tail(routes))

\* results.find(r => r.tags && r.tags.includes(tag)): its position, 0 for none.
findTagged(results, tag) ==
  IF \E i \in 1..Len(results) : tag \in SeqToSet(results[i].tags)
  THEN CHOOSE i \in 1..Len(results) :
         /\ tag \in SeqToSet(results[i].tags)
         /\ \A j \in 1..(i - 1) : tag \notin SeqToSet(results[j].tags)
  ELSE 0

\* String.prototype.toLowerCase on the values of prefer the requests send.
toLowerCase(s) == IF s = "FASTEST" THEN "fastest" ELSE s

\* The single-selection choice with the preference ignored.
chooseRouteSafest(results, prefer) ==
  LET safest == findTagged(results, "safest")
  IN  IF safest # 0 THEN Some(results[safest])
      ELSE IF results # <<>> THEN Some(results[1]) ELSE None

\* The single-selection choice: chosen = safest || results[0] || null, then the
\* route holding the preferred tag when there is one.
chooseRoute(results, prefer) ==
  LET safest   == findTagged(results, "safest")
      fastest  == findTagged(results, "fastest")
      shortest == findTagged(results, "shortest")
      chosen   == IF safest # 0 THEN safest ELSE IF results # <<>> THEN 1 ELSE 0
      pick     == IF prefer = "fastest" /\ fastest # 0 THEN fastest
                  ELSE IF prefer = "shortest" /\ shortest # 0 THEN shortest
                  ELSE IF prefer = "safest" /\ safest # 0 THEN safest
                  ELSE chosen
  IN  IF pick = 0 THEN None ELSE Some(results[pick])

(***************************************************************************)
(* The SafetyScore collection                                              *)
(***************************************************************************)

AreaIds == {"a1", "a2"}

\* The schema's defaults for factors.
\* Math.ceil(n / m) for n >= 0 and m >= 1.
ceilDiv(n, m) == (n + m - 1) \div m

\* for (let i = 0; i < n; i += step) indices.push(i)
RECURSIVE sampleLoop(_, _, _, _)
sampleLoop(i, n, step, indices) ==
  IF i < n THEN sampleLoop(i + step, n, step, Append(indices, i)) ELSE indices

\* sampleIndices with the stride rounded down.
sampleIndicesFloor(n, maxSamples) ==
  sampleLoop(0, n, Max2(1, n \div maxSamples), <<>>)

\* sampleIndices(n, maxSamples): step = Math.max(1, Math.ceil(n / maxSamples)).
sampleIndices(n, maxSamples) ==
  sampleLoop(0, n, Max2(1, ceilDiv(n, maxSamples)), <<>>)

defaultFactors == [k \in FactorSet |-> 5]

\* The document an upsert with $setOnInsert: { areaId } inserts: the schema's defaults.
defaultDoc(h) ==
  [areaId |-> h, score |-> Some(500), factors |-> defaultFactors, nearestPolice |-> None]

(***************************************************************************)
(* State                                                                   *)
(***************************************************************************)
VARIABLES
  fIn,      \* calculateSafetyScore: the factors object passed in
  fOut,     \* calculateSafetyScore: None before the call, Some(score) after
  store,    \* the SafetyScore collection: its documents in natural order
  stations, \* the PoliceStation collection: the placeIds it holds
  cmp,      \* POST /compare requests
  man,      \* POST /update requests
  pass,     \* POST /map-nearest-police requests
  req,      \* POST /compare: the handler around scoreAndTagResults
  call,     \* one call of a helper: its name, arguments and return value
  auth      \* POST /send-otp: the lastSent map, the OTP collection, the clock, the requests

vars == <<fIn, fOut, store, stations, cmp, man, pass, req, call, auth>>

scoreVars == <<fIn, fOut, call>>
storeVars == <<store, stations, cmp, man, pass, req, auth>>

\* A POST /compare handler that has not received its request.
idleReq ==
  [pc |-> "idle", origin |-> FALSE, destination |-> FALSE, single |-> FALSE,
   prefer |-> "", routes |-> <<>>, called |-> 0, replied |-> FALSE, status |-> 0,
   response |-> [kind |-> "", route |-> None, routes |-> <<>>]]

\* No helper called.
idleCall == [fn |-> "", args |-> <<>>, ret |-> None]

(***************************************************************************)
(* Store queries                                                           *)
(***************************************************************************)

\* SafetyScore.find({ areaId: { $in: ids } }): the matching documents in natural order.
find(ids) == SelectSeq(store, LAMBDA d : d.areaId \in SeqToSet(ids))

\* The position of the first document a filter { areaId: h } matches, 0 for none.
firstMatch(h) ==
  IF \E i \in 1..Len(store) : store[i].areaId = h
  THEN CHOOSE i \in 1..Len(store) :
         /\ store[i].areaId = h
         /\ \A j \in 1..(i - 1) : store[j].areaId # h
  ELSE 0

CountDocs(h) == Cardinality({i \in 1..Len(store) : store[i].areaId = h})

(***************************************************************************)
(* POST /compare: processProviderRoutes' items, then scoreAndTagResults    *)
(* with ensureSafetyCells. Every await on the store is a step of its own.  *)
(***************************************************************************)

CompareProcs == {"r1", "r2"}

idleCompare ==
  [pc |-> "idle", results |-> <<>>, hashArray |-> <<>>, missing |-> <<>>,
   todo |-> <<>>, cells |-> <<>>, out |-> <<>>, after |-> {}]

\* ensureSafetyCells' missing with the filter dropped: every id counts as missing.
missingOfAll(hashArray, existing) == hashArray

\* ensureSafetyCells: existingSet, and missing = hashArray.filter(h => !existingSet.has(h)).
missingOf(hashArray, existing) ==
  SelectSeq(hashArray, LAMBDA h : h \notin {existing[i].areaId : i \in 1..Len(existing)})

\* The request arrives with the items processProviderRoutes built; with no area
\* id at all scoreAndTagResults touches no collection and finishes at once.
entered(p, results) ==
  LET hashArray == unionHashes(results) IN
  [cmp[p] EXCEPT !.results = results,
                 !.hashArray = hashArray,
                 !.after = {q \in CompareProcs : cmp[q].pc = "done"},
                 !.pc = IF hashArray = <<>> THEN "done" ELSE "find",
                 !.out = IF hashArray = <<>>
                         THEN scoreAndTag(results, <<>>, <<>>,
                                          [i \in 1..Len(results) |-> TRUE])
                         ELSE <<>>]

\* scoreAndTagResults called on its own with the items of a request.
CompareStart(p, results) ==
  /\ cmp[p].pc = "idle"
  /\ cmp' = [cmp EXCEPT ![p] = entered(p, results)]
  /\ UNCHANGED <<store, stations, man, pass, scoreVars, req, auth>>

\* ensureSafetyCells: await SafetyScore.find(...) and the missing ids.
EnsureFind(p) ==
  /\ cmp[p].pc = "find"
  /\ LET missing == missingOf(cmp[p].hashArray, find(cmp[p].hashArray)) IN
       cmp' = [cmp EXCEPT ![p] =
                 [@ EXCEPT !.missing = missing,
                           !.todo = missing,
                           !.pc = IF missing = <<>> THEN "refetch" ELSE "bulk"]]
  /\ UNCHANGED <<store, stations, man, pass, scoreVars, req, auth>>

\* One updateOne of the bulkWrite, { filter: { areaId: h }, $setOnInsert, upsert }:
\* the server looks for a match. A match is left as it is ($setOnInsert writes
\* only on insert). The index on areaId is not unique (index: true), so nothing
\* ties the lookup to the insert that follows it.
UpsertMatch(p) ==
  /\ cmp[p].pc = "bulk"
  /\ LET h == Head(cmp[p].todo) IN
       IF firstMatch(h) # 0
       THEN cmp' = [cmp EXCEPT ![p] =
                      [@ EXCEPT !.todo = Tail(@),
                                !.pc = IF Tail(cmp[p].todo) = <<>> THEN "refetch" ELSE "bulk"]]
       ELSE cmp' = [cmp EXCEPT ![p] = [@ EXCEPT !.pc = "bulkInsert"]]
  /\ UNCHANGED <<store, stations, man, pass, scoreVars, req, auth>>

\* The insert of an upsert that found no match.
UpsertInsert(p) ==
  /\ cmp[p].pc = "bulkInsert"
  /\ store' = Append(store, defaultDoc(Head(cmp[p].todo)))
  /\ cmp' = [cmp EXCEPT ![p] =
               [@ EXCEPT !.todo = Tail(@),
                         !.pc = IF Tail(cmp[p].todo) = <<>> THEN "refetch" ELSE "bulk"]]
  /\ UNCHANGED <<stations, man, pass, scoreVars, req, auth>>

\* The re-query, then the scoring and tagging of every route.
Refetch(p) ==
  /\ cmp[p].pc = "refetch"
  /\ \E ups \in [1..Len(cmp[p].results) -> BOOLEAN] :
       cmp' = [cmp EXCEPT ![p] =
                 [@ EXCEPT !.cells = find(cmp[p].hashArray),
                           !.out = scoreAndTag(cmp[p].results, find(cmp[p].hashArray),
                                               cmp[p].missing, ups),
                           !.pc = "done"]]
  /\ UNCHANGED <<store, stations, man, pass, scoreVars, req, auth>>

(***************************************************************************)
(* POST /compare: the handler                                              *)
(***************************************************************************)

\* res.status(code).json({ error })
errorResponse == [kind |-> "error", route |-> None, routes |-> <<>>]

\* The check with the destination forgotten.
missingParamsOriginOnly(origin, destination) == ~origin

\* if (!origin || !destination)
missingParams(origin, destination) == ~origin \/ ~destination

\* The request arrives: 400 when origin or destination is missing, before
\* anything else is done; otherwise the provider is called (axios.post).
HandlerStart(p, origin, destination, single, prefer) ==
  /\ req[p].pc = "idle"
  /\ cmp[p].pc = "idle"
  /\ req' = [req EXCEPT ![p] =
               IF missingParams(origin, destination)
               THEN [@ EXCEPT !.origin = origin, !.destination = destination,
                              !.single = single, !.prefer = prefer,
                              !.pc = "done", !.status = 400, !.response = errorResponse]
               ELSE [@ EXCEPT !.origin = origin, !.destination = destination,
                              !.single = single, !.prefer = prefer,
                              !.pc = "provider", !.called = @ + 1]]
  /\ UNCHANGED <<store, stations, cmp, man, pass, scoreVars, auth>>

\* The provider answers: 404 without routes; otherwise processProviderRoutes,
\* and scoreAndTagResults starts on its items.
ProviderReply(p, routes) ==
  /\ req[p].pc = "provider"
  /\ IF routes = <<>>
     THEN /\ req' = [req EXCEPT ![p] =
                       [@ EXCEPT !.replied = TRUE, !.pc = "done", !.status = 404,
                                 !.response = errorResponse]]
          /\ UNCHANGED cmp
     ELSE /\ req' = [req EXCEPT ![p] =
                       [@ EXCEPT !.replied = TRUE, !.routes = routes, !.pc = "scoring"]]
          /\ cmp' = [cmp EXCEPT ![p] = entered(p, processProviderRoutes(routes))]
  /\ UNCHANGED <<store, stations, man, pass, scoreVars, auth>>

\* axios.post rejects: the catch answers 500.
ProviderError(p) ==
  /\ req[p].pc = "provider"
  /\ req' = [req EXCEPT ![p] =
               [@ EXCEPT !.pc = "done", !.status = 500, !.response = errorResponse]]
  /\ UNCHANGED <<store, stations, cmp, man, pass, scoreVars, auth>>

\* scoreAndTagResults has returned: { route: chosen } in single mode, else
\* { routes: results }.
Respond(p) ==
  /\ req[p].pc = "scoring"
  /\ cmp[p].pc = "done"
  /\ req' = [req EXCEPT ![p] =
               [@ EXCEPT !.pc = "done", !.status = 200,
                         !.response =
                           IF req[p].single
                           THEN [kind |-> "route",
                                 route |-> chooseRoute(cmp[p].out, toLowerCase(req[p].prefer)),
                                 routes |-> <<>>]
                           ELSE [kind |-> "routes", route |-> None, routes |-> cmp[p].out]]]
  /\ UNCHANGED <<store, stations, cmp, man, pass, scoreVars, auth>>

(***************************************************************************)
(* POST /update                                                            *)
(***************************************************************************)

ManualProcs == {"m1"}

idleManual ==
  [pc |-> "idle", status |-> 0, areaId |-> None, factors |-> EmptyFactors, score |-> 0]

\* if (!areaId) { if (lat == null || lng == null) return 400 }: a body with
\* neither an areaId nor a position.
ManualReject(m) ==
  /\ man[m].pc = "idle"
  /\ man' = [man EXCEPT ![m] = [@ EXCEPT !.pc = "done", !.status = 400]]
  /\ UNCHANGED <<store, stations, cmp, pass, scoreVars, req, auth>>

\* findOneAndUpdate({ areaId }, { areaId, score, factors, lastUpdated }, { upsert }):
\* the score is computed from the body's factors, then the server looks for a
\* match and, finding one, writes the first matching document in one step.
ManualMatch(m, areaId, factors) ==
  /\ man[m].pc = "idle"
  /\ LET score == calculateSafetyScore(factors)
         i     == firstMatch(areaId)
     IN  /\ man' = [man EXCEPT ![m] =
                      [@ EXCEPT !.areaId = Some(areaId), !.factors = factors,
                                !.score = score,
                                !.pc = IF i # 0 THEN "done" ELSE "insert",
                                !.status = IF i # 0 THEN 200 ELSE 0]]
         /\ store' = IF i # 0
                     THEN [store EXCEPT ![i] = [@ EXCEPT !.score = Some(score),
                                                         !.factors = factors]]
                     ELSE store
  /\ UNCHANGED <<stations, cmp, pass, scoreVars, req, auth>>

\* The insert of the upsert that found no match.
ManualInsert(m) ==
  /\ man[m].pc = "insert"
  /\ store' = Append(store, [areaId |-> Val(man[m].areaId), score |-> Some(man[m].score),
                             factors |-> man[m].factors, nearestPolice |-> None])
  /\ man' = [man EXCEPT ![m] = [@ EXCEPT !.pc = "done", !.status = 200]]
  /\ UNCHANGED <<stations, cmp, pass, scoreVars, req, auth>>

(***************************************************************************)
(* POST /map-nearest-police                                                *)
(***************************************************************************)

PassProcs == {"k1", "k2"}

Stations == {"p1", "p2"}

\* dist.calculated of $geoNear, rounded, from the centre of a cell's bounding
\* box to a station: the geometry of the two cells and the two stations.
distance_m(areaId, placeId) ==
  CASE areaId = "a1" /\ placeId = "p1" -> 200
    [] areaId = "a1" /\ placeId = "p2" -> 3000
    [] areaId = "a2" /\ placeId = "p1" -> 4500
    [] OTHER -> 900

batchSize == 200

\* The steps with their upper ends left out.
mapDistanceToPoliceScoreStrict(m) ==
  IF m < 250 THEN 10
  ELSE IF m < 500 THEN 8
  ELSE IF m < 1000 THEN 6
  ELSE IF m < 2000 THEN 4
  ELSE IF m < 4000 THEN 2
  ELSE 0

mapDistanceToPoliceScore(m) ==
  IF m <= 250 THEN 10
  ELSE IF m <= 500 THEN 8
  ELSE IF m <= 1000 THEN 6
  ELSE IF m <= 2000 THEN 4
  ELSE IF m <= 4000 THEN 2
  ELSE 0

\* findNearestPolice: $geoNear sorted by distance, $limit 1; null when the
\* collection is empty or the aggregation throws (ok = FALSE).
findNearestPolice(areaId, ok) ==
  IF ~ok \/ stations = {} THEN None
  ELSE LET best == CHOOSE s \in stations :
                     \A t \in stations : distance_m(areaId, s) <= distance_m(areaId, t)
       IN  Some([placeId |-> best, distance_m |-> distance_m(areaId, best)])

idlePass ==
  [pc |-> "idle", dry |-> FALSE, cursor |-> <<>>, ops |-> <<>>, todo |-> <<>>,
   modified |-> 0, results |-> <<>>, processed |-> 0, updated |-> 0,
   status |-> 0, response |-> None,
   query |-> <<None, 0>>, failed |-> FALSE, failures |-> 0, applied |-> 0,
   targets |-> <<>>, submitted |-> 0, completed |-> 0]

\* Object.assign({}, doc.factors || {}, { police: policeScore })
mergePolice(factors, policeScore) ==
  [k \in DOMAIN factors \cup {"police"} |-> IF k = "police" THEN policeScore ELSE factors[k]]

\* setObj for one document and its nearest station.
setObjOf(doc, nearest) ==
  LET policeScore == mapDistanceToPoliceScore(nearest.distance_m) IN
  [police |-> policeScore,
   score |-> calculateSafetyScore(mergePolice(doc.factors, policeScore)),
   nearestPolice |-> [placeId |-> nearest.placeId, distance_m |-> nearest.distance_m]]

\* A response that leaves the results out of a dry run.
passResponseBare(r, updated) ==
  Some([processed |-> r.processed, updated |-> IF r.dry THEN 0 ELSE updated,
        results |-> IF r.dry THEN <<>> ELSE r.results])

\* res.json({ processed, updated: dry ? 0 : updated, results })
passResponse(r, updated) ==
  Some([processed |-> r.processed, updated |-> IF r.dry THEN 0 ELSE updated,
        results |-> r.results])

\* The documents of find({ areaId: { $in: ids } }), or of find({}).limit(limit).
targetDocs(ids, limit) ==
  IF IsSome(ids) THEN find(Val(ids)) ELSE SubSeq(store, 1, Min2(limit, Len(store)))

\* The cursor over the target documents; the first batch holds them all, as
\* they are when the first cursor.next() runs. targets keeps their areaIds.
PassStart(k, ids, limit, dry) ==
  /\ pass[k].pc = "idle"
  /\ pass' = [pass EXCEPT ![k] =
                [@ EXCEPT !.pc = "loop", !.dry = dry, !.query = <<ids, limit>>,
                          !.cursor = targetDocs(ids, limit),
                          !.targets = [i \in 1..Len(targetDocs(ids, limit)) |->
                                         targetDocs(ids, limit)[i].areaId]]]
  /\ UNCHANGED <<store, stations, cmp, man, scoreVars, req, auth>>

\* A turn of the loop that leaves the loop when no station is found.
PassVisitAborting(k, ok) ==
  /\ pass[k].pc = "loop"
  /\ pass[k].cursor # <<>>
  /\ LET doc     == Head(pass[k].cursor)
         nearest == findNearestPolice(doc.areaId, ok)
     IN  IF ~IsSome(nearest)
         THEN pass' = [pass EXCEPT ![k] =
                         [@ EXCEPT !.cursor = <<>>, !.processed = @ + 1]]
         ELSE LET setObj == setObjOf(doc, Val(nearest))
                  ops    == IF pass[k].dry THEN pass[k].ops
                            ELSE Append(pass[k].ops, [areaId |-> doc.areaId, set |-> setObj])
              IN  pass' = [pass EXCEPT ![k] =
                             [@ EXCEPT !.cursor = Tail(@),
                                       !.processed = @ + 1,
                                       !.results = Append(@, [areaId |-> doc.areaId,
                                                              nearest |-> Some(setObj.nearestPolice),
                                                              policeScore |-> Some(setObj.police)]),
                                       !.ops = ops]]
  /\ UNCHANGED <<store, stations, cmp, man, scoreVars, req, auth>>

\* One turn of the loop: processed++, the nearest station, the result and,
\* unless dry, the update op.
PassVisit(k, ok) ==
  /\ pass[k].pc = "loop"
  /\ pass[k].cursor # <<>>
  /\ LET doc     == Head(pass[k].cursor)
         nearest == findNearestPolice(doc.areaId, ok)
     IN  IF ~IsSome(nearest)
         THEN pass' = [pass EXCEPT ![k] =
                         [@ EXCEPT !.cursor = Tail(@),
                                   !.processed = @ + 1,
                                   !.results = Append(@, [areaId |-> doc.areaId,
                                                          nearest |-> None,
                                                          policeScore |-> None])]]
         ELSE LET setObj == setObjOf(doc, Val(nearest))
                  ops    == IF pass[k].dry THEN pass[k].ops
                            ELSE Append(pass[k].ops, [areaId |-> doc.areaId, set |-> setObj])
              IN  pass' = [pass EXCEPT ![k] =
                             [@ EXCEPT !.cursor = Tail(@),
                                       !.processed = @ + 1,
                                       !.results = Append(@, [areaId |-> doc.areaId,
                                                              nearest |-> Some(setObj.nearestPolice),
                                                              policeScore |-> Some(setObj.police)]),
                                       !.ops = ops,
                                       !.todo = IF Len(ops) >= batchSize THEN ops ELSE <<>>,
                                       !.submitted = IF Len(ops) >= batchSize
                                                     THEN @ + Len(ops) ELSE @,
                                       !.pc = IF Len(ops) >= batchSize THEN "flush" ELSE "loop"]]
  /\ UNCHANGED <<store, stations, cmp, man, scoreVars, req, auth>>

\* The last bulkWrite started and the response sent without awaiting it.
PassLoopEndUnawaited(k) ==
  /\ pass[k].pc = "loop"
  /\ pass[k].cursor = <<>>
  /\ pass' = [pass EXCEPT ![k] =
                [@ EXCEPT !.pc = "done", !.status = 200,
                          !.todo = IF pass[k].dry THEN <<>> ELSE pass[k].ops,
                          !.submitted = IF pass[k].dry THEN @ ELSE @ + Len(pass[k].ops),
                          !.response = passResponse(pass[k], pass[k].updated)]]
  /\ UNCHANGED <<store, stations, cmp, man, scoreVars, req, auth>>

\* cursor.next() gives null: the last bulkWrite if ops are left, else the response.
PassLoopEnd(k) ==
  /\ pass[k].pc = "loop"
  /\ pass[k].cursor = <<>>
  /\ IF pass[k].ops # <<>> /\ ~pass[k].dry
     THEN pass' = [pass EXCEPT ![k] = [@ EXCEPT !.pc = "final", !.todo = pass[k].ops,
                                               !.submitted = @ + Len(pass[k].ops)]]
     ELSE pass' = [pass EXCEPT ![k] =
                     [@ EXCEPT !.pc = "done", !.status = 200,
                               !.response = passResponse(pass[k], pass[k].updated)]]
  /\ UNCHANGED <<store, stations, cmp, man, scoreVars, req, auth>>

\* An update that sets nearestPolice.placeId and nearestPolice.distance_m one
\* by one, keeping the other fields of the stored reference.
applySetMerge(doc, set) ==
  [doc EXCEPT !.factors = mergePolice(doc.factors, set.police),
              !.score = Some(set.score),
              !.nearestPolice =
                 IF IsSome(doc.nearestPolice)
                 THEN Some([f \in DOMAIN Val(doc.nearestPolice) \cup DOMAIN set.nearestPolice |->
                              IF f \in DOMAIN set.nearestPolice THEN set.nearestPolice[f]
                              ELSE Val(doc.nearestPolice)[f]])
                 ELSE Some(set.nearestPolice)]

\* An update that writes the whole factors object, the others at the default.
applySetAll(doc, set) ==
  [doc EXCEPT !.factors = mergePolice(defaultFactors, set.police),
              !.score = Some(set.score),
              !.nearestPolice = Some(set.nearestPolice)]

\* An update that leaves the score as it was.
applySetNoScore(doc, set) ==
  [doc EXCEPT !.factors = mergePolice(doc.factors, set.police),
              !.nearestPolice = Some(set.nearestPolice)]

\* updateOne({ areaId }, { $set: setObj }) on the first matching document;
\* $set of nearestPolice replaces the stored reference as a whole.
applySet(doc, set) ==
  [doc EXCEPT !.factors = mergePolice(doc.factors, set.police),
              !.score = Some(set.score),
              !.nearestPolice = Some(set.nearestPolice)]

\* bulkWrite(ops, { ordered: false }): the server applies the ops one at a time,
\* in no fixed order, and an op may fail (fail) without stopping the others.
\* After the last one: with no failure updated += modifiedCount, and the loop
\* goes on (ops cleared) or the response is sent; with a failure bulkWrite
\* throws, which inside the loop is caught and logged (ops and updated are
\* left as they were) and after the loop is answered 500.
\* applied and failures count, over the whole pass, the documents modified
\* and the ops that failed; submitted and completed the ops handed to bulkWrite
\* and the ops the server has finished with.
PassWrite(k, n, fail) ==
  /\ pass[k].pc \in {"flush", "final"}
  /\ n \in 1..Len(pass[k].todo)
  /\ LET op       == pass[k].todo[n]
         i        == firstMatch(op.areaId)
         hit      == ~fail /\ i # 0
         rest     == SubSeq(pass[k].todo, 1, n - 1) \o SubSeq(pass[k].todo, n + 1, Len(pass[k].todo))
         modified == pass[k].modified + (IF hit THEN 1 ELSE 0)
         failed   == pass[k].failed \/ fail
         counted  == [pass[k] EXCEPT !.applied = @ + (IF hit THEN 1 ELSE 0),
                                     !.failures = @ + (IF fail THEN 1 ELSE 0),
                                     !.completed = @ + 1]
     IN  /\ store' = IF hit THEN [store EXCEPT ![i] = applySet(@, op.set)] ELSE store
         /\ pass' = [pass EXCEPT ![k] =
                       IF rest # <<>>
                       THEN [counted EXCEPT !.todo = rest, !.modified = modified,
                                            !.failed = failed]
                       ELSE IF failed /\ pass[k].pc = "flush"
                       THEN [counted EXCEPT !.todo = <<>>, !.modified = 0, !.failed = FALSE,
                                            !.pc = "loop"]
                       ELSE IF failed
                       THEN [counted EXCEPT !.todo = <<>>, !.modified = 0, !.failed = FALSE,
                                            !.pc = "done", !.status = 500]
                       ELSE IF pass[k].pc = "flush"
                       THEN [counted EXCEPT !.todo = <<>>, !.modified = 0, !.ops = <<>>,
                                            !.updated = @ + modified, !.pc = "loop"]
                       ELSE [counted EXCEPT !.todo = <<>>, !.modified = 0,
                                            !.updated = @ + modified,
                                            !.pc = "done", !.status = 200,
                                            !.response = passResponse(pass[k], pass[k].updated + modified)]]
  /\ UNCHANGED <<stations, cmp, man, scoreVars, req, auth>>

(***************************************************************************)
(* POST /send-otp                                                          *)
(***************************************************************************)

\* The number of times the clock is advanced.
MaxTicks == 2

OtpProcs == {"o1", "o2"}

\* An e-mail address (it includes "@") and a phone number.
Identifiers == {"a@x", "555"}

OtpCodes == {"111111", "222222"}

\* 60 * 1000 and 5 * 60 * 1000 milliseconds.
windowMs == 60 * 1000
expiryMs == 5 * 60 * 1000

\* Date.now() when the server starts, and the times that may pass between
\* two steps.
epoch == 10 * windowMs
TickSteps == {windowMs \div 2, windowMs}

idleOtp == [pc |-> "idle", identifier |-> None, now |-> 0, otp |-> "", status |-> 0]

\* const lastSent = new Map(); an empty OTP collection; no request received.
idleAuth ==
  [lastSent |-> [id \in Identifiers |-> None], otps |-> <<>>, clock |-> epoch, ticks |-> 0,
   procs |-> [o \in OtpProcs |-> idleOtp]]

\* last && now - last < 60 * 1000
tooSoon(last, now) == IsSome(last) /\ now - Val(last) < windowMs

\* The handler up to its first await: 400 without an identifier, 429 inside
\* the window of lastSent, else the code is drawn and deleteMany is called.
OtpStart(o, identifier, otp) ==
  /\ auth.procs[o].pc = "idle"
  /\ auth' = [auth EXCEPT !.procs[o] =
       IF ~IsSome(identifier)
       THEN [@ EXCEPT !.pc = "done", !.status = 400]
       ELSE IF tooSoon(auth.lastSent[Val(identifier)], auth.clock)
       THEN [@ EXCEPT !.pc = "done", !.status = 429, !.identifier = identifier,
                      !.now = auth.clock]
       ELSE [@ EXCEPT !.pc = "deleteMany", !.identifier = identifier,
                      !.now = auth.clock, !.otp = otp]]
  /\ UNCHANGED <<fIn, fOut, call, store, stations, cmp, man, pass, req>>

\* await OTP.deleteMany({ identifier }); a rejection is answered 500.
OtpDeleteMany(o, ok) ==
  /\ auth.procs[o].pc = "deleteMany"
  /\ auth' = IF ok
             THEN [auth EXCEPT !.otps = SelectSeq(@, LAMBDA r :
                                          r.identifier # Val(auth.procs[o].identifier)),
                               !.procs[o].pc = "create"]
             ELSE [auth EXCEPT !.procs[o].pc = "done", !.procs[o].status = 500]
  /\ UNCHANGED <<fIn, fOut, call, store, stations, cmp, man, pass, req>>

\* await OTP.create({ identifier, otp, expiresAt }), expiresAt computed before
\* the first await.
OtpCreate(o, ok) ==
  /\ auth.procs[o].pc = "create"
  /\ auth' = IF ok
             THEN [auth EXCEPT !.otps = Append(@, [identifier |-> Val(auth.procs[o].identifier),
                                                   otp |-> auth.procs[o].otp,
                                                   expiresAt |-> auth.procs[o].now + expiryMs]),
                               !.procs[o].pc = "send"]
             ELSE [auth EXCEPT !.procs[o].pc = "done", !.procs[o].status = 500]
  /\ UNCHANGED <<fIn, fOut, call, store, stations, cmp, man, pass, req>>

\* await sendEmail / sendSMS, then lastSent.set(identifier, now) and the 200;
\* a rejection of the send is answered 500 and lastSent stays.
OtpSend(o, ok) ==
  /\ auth.procs[o].pc = "send"
  /\ auth' = IF ok
             THEN [auth EXCEPT !.lastSent[Val(auth.procs[o].identifier)] = Some(auth.procs[o].now),
                               !.procs[o].pc = "done", !.procs[o].status = 200]
             ELSE [auth EXCEPT !.procs[o].pc = "done", !.procs[o].status = 500]
  /\ UNCHANGED <<fIn, fOut, call, store, stations, cmp, man, pass, req>>

\* Time passes.
Tick(d) ==
  /\ auth.ticks < MaxTicks
  /\ auth' = [auth EXCEPT !.clock = @ + d, !.ticks = @ + 1]
  /\ UNCHANGED <<fIn, fOut, call, store, stations, cmp, man, pass, req>>

(***************************************************************************)
(* Spec: requests of every kind, interleaved at their awaits.              *)
(***************************************************************************)

\* The provider's routes as processProviderRoutes leaves them, for the
\* interleaved runs: one or two routes over the two cells.
SmallResults ==
  { <<ResultItem(<<"a1">>, Some(1), Some(2))>>,
    <<ResultItem(<<"a1", "a2">>, Some(2), Some(1))>>,
    <<ResultItem(<<"a1">>, Some(1), Some(1)), ResultItem(<<"a2", "a1">>, Some(1), Some(2))>> }

\* The factors a POST /update body carries.
ManualFactors ==
  { [lighting |-> 10, crowd |-> 10, police |-> 10, incidents |-> 0, accidents |-> 0],
    [lighting |-> 2],
    [lighting |-> 9, crowd |-> 7, police |-> 5, incidents |-> 4, accidents |-> 3] }

ScoreIdle == fIn = EmptyFactors /\ fOut = None /\ call = idleCall

Init ==
  /\ ScoreIdle
  /\ store = <<>>
  /\ cmp = [p \in CompareProcs |-> idleCompare]
  /\ man = [m \in ManualProcs |-> idleManual]
  /\ pass = [k \in PassProcs |-> idlePass]
  /\ stations = Stations
  /\ req = [p \in CompareProcs |-> idleReq]
  /\ auth = idleAuth

CompareNext(p) ==
  \/ cmp[p].pc = "idle" /\ \E results \in SmallResults : CompareStart(p, results)
  \/ EnsureFind(p)
  \/ UpsertMatch(p)
  \/ UpsertInsert(p)
  \/ Refetch(p)

ManualNext(m) ==
  \/ ManualReject(m)
  \/ \E a \in AreaIds, f \in ManualFactors : ManualMatch(m, a, f)
  \/ ManualInsert(m)

Next ==
  \/ \E p \in CompareProcs : CompareNext(p)
  \/ \E m \in ManualProcs : ManualNext(m)

Spec == Init /\ [][Next]_vars

(***************************************************************************)
(* Claims about lazy cell creation (checked under Spec)                    *)
(***************************************************************************)

Referenced == UNION {SeqToSet(cmp[p].hashArray) : p \in CompareProcs}

\* C1: when compare-routes requests that reference the same previously-unseen
\* cell id run concurrently, then after all of them have completed the store
\* holds exactly one record for that id.
C1_OneRecordPerId ==
  ( /\ \A p \in CompareProcs : cmp[p].pc = "done"
    /\ \A m \in ManualProcs : man[m].pc = "idle" )
  => \A h \in Referenced : CountDocs(h) = 1

\* C3: for every interleaving of one compare-routes request and one manual
\* factor update on the same cell id, once both have completed every record of
\* that id carries the score and factors the manual update wrote.
C3_ManualRecordStands ==
  \A m \in ManualProcs, p \in CompareProcs :
    ( /\ man[m].pc = "done" /\ man[m].status = 200
      /\ cmp[p].pc = "done"
      /\ \A q \in CompareProcs \ {p} : cmp[q].pc = "idle"
      /\ \A n \in ManualProcs \ {m} : man[n].pc = "idle"
      /\ Val(man[m].areaId) \in SeqToSet(cmp[p].hashArray) )
    => \A i \in 1..Len(store) :
         store[i].areaId = Val(man[m].areaId)
         => /\ store[i].score = Some(man[m].score)
            /\ store[i].factors = man[m].factors

(***************************************************************************)
(* SpecSeq: the same requests, each run to its response before the next    *)
(* one starts.                                                             *)
(***************************************************************************)

Quiescent ==
  /\ \A p \in CompareProcs : cmp[p].pc \in {"idle", "done"}
  /\ \A m \in ManualProcs : man[m].pc \in {"idle", "done"}
  /\ \A k \in PassProcs : pass[k].pc \in {"idle", "done"}

CompareNextSeq(p) ==
  \/ Quiescent /\ cmp[p].pc = "idle" /\ \E results \in SmallResults : CompareStart(p, results)
  \/ EnsureFind(p)
  \/ UpsertMatch(p)
  \/ UpsertInsert(p)
  \/ Refetch(p)

ManualNextSeq(m) ==
  \/ Quiescent /\ ManualReject(m)
  \/ Quiescent /\ \E a \in AreaIds, f \in ManualFactors : ManualMatch(m, a, f)
  \/ ManualInsert(m)

NextSeq ==
  \/ \E p \in CompareProcs : CompareNextSeq(p)
  \/ \E m \in ManualProcs : ManualNextSeq(m)

SpecSeq == Init /\ [][NextSeq]_vars

\* C2: calling the route scorer twice in sequence on overlapping cell-id sets
\* creates no duplicate record: every id has at most one record, each id the
\* first call created has exactly one, and the second call reports none of
\* them as created (not in missing, not in any route's created_cells, and a
\* created_cells_count of 0 for a route made only of such ids).
C2_SecondCallCreatesNothing ==
  /\ \A h \in AreaIds : CountDocs(h) <= 1
  /\ \A p \in CompareProcs, q \in CompareProcs :
       (cmp[q].pc = "done" /\ p \in cmp[q].after)
       => \A h \in SeqToSet(cmp[p].missing) :
            /\ CountDocs(h) = 1
            /\ h \notin SeqToSet(cmp[q].missing)
            /\ \A i \in 1..Len(cmp[q].out) :
                 /\ h \notin SeqToSet(cmp[q].out[i].created_cells)
                 /\ SeqToSet(cmp[q].out[i].areaIds) \subseteq SeqToSet(cmp[p].missing)
                    => cmp[q].out[i].created_cells_count = 0

C2_Witness ==
  \E p \in CompareProcs, q \in CompareProcs :
    /\ cmp[q].pc = "done" /\ p \in cmp[q].after
    /\ SeqToSet(cmp[p].missing) \cap SeqToSet(cmp[q].hashArray) # {}
    /\ cmp[q].missing # <<>>

(***************************************************************************)
(* SpecCompare: one POST /compare, from every list of up to MaxRoutes      *)
(* routes over RichItems and every store of InitialStores.                 *)
(***************************************************************************)

MaxRoutes == 2

RouteAreaIds == {<<>>, <<"a1">>, <<"a2">>, <<"a1", "a2">>}

\* <<distance.value, duration.value>> as processProviderRoutes leaves them: each
\* missing or a number, and a duration estimated whenever a distance is there.
MetricPairs ==
  { <<None, None>>, <<None, Some(1)>>, <<Some(1), Some(2)>>, <<Some(2), Some(1)>> }

RichItems == {ResultItem(a, m[1], m[2]) : a \in RouteAreaIds, m \in MetricPairs}

RichResults == UNION {[1..n -> RichItems] : n \in 0..MaxRoutes}

\* A document as POST /update writes it.
manualDoc(h, factors) ==
  [areaId |-> h, score |-> Some(calculateSafetyScore(factors)), factors |-> factors,
   nearestPolice |-> None]

\* Factors that score 8.00, 3.00 and 4.25.
Factors800 == [lighting |-> 8, crowd |-> 8, police |-> 8, incidents |-> 2, accidents |-> 2]
Factors300 == [lighting |-> 3, crowd |-> 3, police |-> 3, incidents |-> 7, accidents |-> 7]
Factors425 == [lighting |-> 2]

\* A document written without the schema (an import): no score field.
bareDoc(h) == [areaId |-> h, score |-> None, factors |-> EmptyFactors, nearestPolice |-> None]

\* Collections the request may find: empty, written by POST /update, holding
\* the duplicate a race of two upserts leaves, or holding an imported document.
InitialStores ==
  { <<>>,
    <<manualDoc("a1", Factors800)>>,
    <<manualDoc("a1", Factors800), manualDoc("a2", Factors300)>>,
    <<manualDoc("a1", Factors300), manualDoc("a2", Factors800)>>,
    <<manualDoc("a2", Factors425)>>,
    <<manualDoc("a1", Factors800), defaultDoc("a1")>>,
    <<bareDoc("a1"), manualDoc("a2", Factors800)>> }

InitCompare ==
  /\ ScoreIdle
  /\ store \in InitialStores
  /\ cmp = [p \in CompareProcs |-> idleCompare]
  /\ man = [m \in ManualProcs |-> idleManual]
  /\ pass = [k \in PassProcs |-> idlePass]
  /\ stations = Stations
  /\ req = [p \in CompareProcs |-> idleReq]
  /\ auth = idleAuth

NextCompare ==
  \/ cmp["r1"].pc = "idle" /\ \E results \in RichResults : CompareStart("r1", results)
  \/ EnsureFind("r1")
  \/ UpsertMatch("r1")
  \/ UpsertInsert("r1")
  \/ Refetch("r1")

SpecCompare == InitCompare /\ [][NextCompare]_vars

(***************************************************************************)
(* Claims about scoring, ranking and tagging (checked under SpecCompare)   *)
(***************************************************************************)

Done(p) == cmp[p].pc = "done"

\* C8: the routes come back ordered by safety score descending, every "N/A"
\* route after every numerically scored one.
C8_ReturnedInScoreOrder ==
  \A p \in CompareProcs :
    Done(p) =>
      \A i \in 1..Len(cmp[p].out), j \in 1..Len(cmp[p].out) :
        i < j =>
          LET a == cmp[p].out[i].safety_score
              b == cmp[p].out[j].safety_score
          IN  /\ IsSome(b) => IsSome(a)
              /\ (IsSome(a) /\ IsSome(b)) => Val(a) >= Val(b)

\* The scores a re-query offers for one id: that of a fetched record of the id
\* (5 for a record without a numeric score), 5 when no record was fetched.
OfferedScores(id, cells) ==
  LET docs == {i \in 1..Len(cells) : cells[i].areaId = id}
  IN  IF docs = {} THEN {500}
      ELSE {IF IsSome(cells[i].score) THEN Val(cells[i].score) ELSE 500 : i \in docs}

RECURSIVE OfferedTotals(_, _)
OfferedTotals(ids, cells) ==
  IF ids = <<>> THEN {0}
  ELSE {v + t : v \in OfferedScores(Head(ids), cells), t \in OfferedTotals(Tail(ids), cells)}

\* s is total / count rounded to the nearest hundredth.
IsRoundedMean(s, total, count) ==
  /\ 2 * (s * count - total) <= count
  /\ 2 * (total - s * count) <= count

\* C9: each route's safety score is the mean, rounded to 2 decimals, of the
\* scores of its covered cell ids as the re-query returned them, an id with no
\* record or a non-numeric score counting as 5; a route covering no cell
\* scores "N/A".
C9_ScoreIsMeanOfCells ==
  \A p \in CompareProcs :
    Done(p) =>
      /\ Len(cmp[p].out) = Len(cmp[p].results)
      /\ \A i \in 1..Len(cmp[p].out) :
           LET r == cmp[p].out[i] IN
           /\ r.areaIds = cmp[p].results[i].areaIds
           /\ IF r.areaIds = <<>> THEN r.safety_score = None
              ELSE /\ IsSome(r.safety_score)
                   /\ \E total \in OfferedTotals(r.areaIds, cmp[p].cells) :
                        IsRoundedMean(Val(r.safety_score), total, Len(r.areaIds))

C9_Witness ==
  /\ Done("r1")
  /\ \E i \in 1..Len(cmp["r1"].out), j \in 1..Len(cmp["r1"].out) :
       /\ cmp["r1"].out[i].areaIds = <<>>
       /\ Len(cmp["r1"].out[j].areaIds) = 2
       /\ \E k \in 1..Len(cmp["r1"].cells) :
            /\ ~IsSome(cmp["r1"].cells[k].score)
            /\ cmp["r1"].cells[k].areaId \in SeqToSet(cmp["r1"].out[j].areaIds)

HasTag(r, t) == t \in SeqToSet(r.tags)

\* Position i is the first among the positions of vals holding the largest
\* (sign = 1) or the smallest (sign = -1) of the values present.
FirstBest(vals, i, sign) ==
  /\ IsSome(vals[i])
  /\ \A j \in 1..Len(vals) :
       IsSome(vals[j]) =>
         /\ sign * Val(vals[j]) <= sign * Val(vals[i])
         /\ j < i => sign * Val(vals[j]) < sign * Val(vals[i])

\* C10: "safest" is on the route with the maximum numeric score, "fastest" on
\* the one with the minimum duration seconds, "shortest" on the one with the
\* minimum distance meters, the first in input order on a tie; a tag is on at
\* most one route, and a route may hold several.
C10_TagsOnFirstBest ==
  \A p \in CompareProcs :
    Done(p) =>
      LET out       == cmp[p].out
          scores    == [i \in 1..Len(out) |-> out[i].safety_score]
          durations == [i \in 1..Len(out) |-> out[i].duration]
          distances == [i \in 1..Len(out) |-> out[i].distance]
      IN
      /\ \A i \in 1..Len(out) :
           /\ HasTag(out[i], "safest") <=> FirstBest(scores, i, 1)
           /\ HasTag(out[i], "fastest") <=> FirstBest(durations, i, 0 - 1)
           /\ HasTag(out[i], "shortest") <=> FirstBest(distances, i, 0 - 1)
           /\ SeqToSet(out[i].tags) \subseteq {"safest", "fastest", "shortest"}
           /\ out[i].duration = cmp[p].results[i].duration
           /\ out[i].distance = cmp[p].results[i].distance
      /\ \A t \in {"safest", "fastest", "shortest"} :
           Cardinality({i \in 1..Len(out) : HasTag(out[i], t)}) <= 1

\* Two routes tie on score, duration and distance, and the first holds all three tags.
C10_Witness ==
  /\ Done("r1")
  /\ Len(cmp["r1"].out) >= 2
  /\ cmp["r1"].out[1].tags = <<"safest", "fastest", "shortest">>
  /\ cmp["r1"].out[2].safety_score = cmp["r1"].out[1].safety_score
  /\ cmp["r1"].out[2].duration = cmp["r1"].out[1].duration
  /\ cmp["r1"].out[2].distance = cmp["r1"].out[1].distance

(***************************************************************************)
(* SpecPolice: one request of each kind, interleaved at their awaits.      *)
(***************************************************************************)

\* The areaIds query of a mapping pass: absent (a scan up to limit) or a list.
PassIds == {None, Some(<<"a1">>)}

\* The limit query: a small one, and the default.
PassLimits == {1, 100}

PassNext(k) ==
  \/ pass[k].pc = "idle" /\ \E ids \in PassIds, limit \in PassLimits, dry \in BOOLEAN :
       PassStart(k, ids, limit, dry)
  \/ \E ok \in BOOLEAN : PassVisit(k, ok)
  \/ PassLoopEnd(k)
  \/ \E n \in 1..Len(pass[k].todo), fail \in BOOLEAN : PassWrite(k, n, fail)

NextPolice ==
  \/ CompareNext("r1")
  \/ \E m \in ManualProcs : ManualNext(m)
  \/ PassNext("k1")

SpecPolice == Init /\ [][NextPolice]_vars

\* C4: in every reachable state each stored cell's score is the safety-score
\* aggregate of the factors stored with it.
C4_ScoreIsAggregateOfFactors ==
  \A i \in 1..Len(store) :
    store[i].score = Some(calculateSafetyScore(store[i].factors))

(***************************************************************************)
(* SpecScore: calculateSafetyScore applied to every factors object over    *)
(* FactorInputs.                                                           *)
(***************************************************************************)

\* Values a caller may send for one factor: inside, on the edge of and outside 0..10.
FactorInputs == {0 - 3, 0, 1, 5, 9, 10, 14}

FactorObjects == UNION {[S -> FactorInputs] : S \in SUBSET FactorSet}

InitScore ==
  /\ fIn \in FactorObjects
  /\ fOut = None
  /\ call = idleCall
  /\ store = <<>>
  /\ cmp = [p \in CompareProcs |-> idleCompare]
  /\ man = [m \in ManualProcs |-> idleManual]
  /\ pass = [k \in PassProcs |-> idlePass]
  /\ stations = Stations
  /\ req = [p \in CompareProcs |-> idleReq]
  /\ auth = idleAuth

Compute ==
  /\ fOut = None
  /\ fOut' = Some(calculateSafetyScore(fIn))
  /\ UNCHANGED <<fIn, call, storeVars>>

NextScore == Compute

SpecScore == InitScore /\ [][NextScore]_vars

(***************************************************************************)
(* Claims about calculateSafetyScore (checked under SpecScore)             *)
(***************************************************************************)

\* The aggregate as the specification words it: 5 only for an absent factor,
\* clamped to [0,10], 10 - value for incidents and accidents, weighted.
RefAggregate(factors) ==
  LET term(k) ==
        LET v == clamp(IF k \in DOMAIN factors THEN factors[k] ELSE 5)
        IN  IF k \in {"incidents", "accidents"} THEN 10 - v ELSE v
  IN  SumSeq([i \in 1..Len(FactorNames) |-> term(FactorNames[i]) * weights[FactorNames[i]]])

InRange(factors) == \A k \in DOMAIN factors : factors[k] \in 0..10

\* C5: for every factors object whose factors are absent or in 0..10 the
\* computed score equals the reference aggregate (5 only when absent); in
\* particular {lighting:10, crowd:10, police:10, incidents:0, accidents:0}
\* scores 10.00.
C5_ScoreIsReferenceAggregate ==
  (IsSome(fOut) /\ InRange(fIn)) => Val(fOut) = RefAggregate(fIn)

Fill5(factors) == [k \in FactorSet |-> IF k \in DOMAIN factors THEN factors[k] ELSE 5]

\* C6: the score of an empty (or missing) factors object is 5.00, and each
\* absent factor counts exactly as the neutral value 5 does.
C6_EmptyScoresFive ==
  IsSome(fOut) =>
    /\ (fIn = EmptyFactors => Val(fOut) = 500)
    /\ Val(fOut) = calculateSafetyScore(Fill5(fIn))

C6_Witness == IsSome(fOut) /\ fIn = EmptyFactors

\* C7: for every numeric factors object, values below 0 or above 10
\* included, the computed score lies in [0,10].
C7_ScoreInRange == IsSome(fOut) => (Val(fOut) >= 0 /\ Val(fOut) <= 1000)

C7_Witness ==
  /\ IsSome(fOut)
  /\ \E k \in DOMAIN fIn : fIn[k] > 10
  /\ \E k \in DOMAIN fIn : fIn[k] < 0

(***************************************************************************)
(* SpecHandler: one POST /compare from the request to the response, over   *)
(* every list of up to MaxProviderRoutes routes of ProviderRouteSet.       *)
(***************************************************************************)

MaxProviderRoutes == 2

\* Routes the provider may answer with: polylines that decode as they are,
\* after a recovery, or never; no polyline field; an empty polyline.
ProviderRouteSet ==
  { ProviderRoute("polyline.encodedPolyline", <<"A">>, Some(100), Some(30)),
    ProviderRoute("polyline.encodedPolyline", <<"B", "A">>, Some(250), None),
    ProviderRoute("overview_polyline.points", <<"{", "B", "}">>, None, Some(20)),
    ProviderRoute("polyline", <<"uesc", "B">>, Some(300), Some(25)),
    ProviderRoute("polyline.points", <<"bsbs", "A">>, Some(120), Some(30)),
    ProviderRoute("encodedPolyline", <<"!">>, Some(50), Some(10)),
    ProviderRoute("polyline.encodedPolyline", <<"{", "}">>, None, None),
    ProviderRoute("none", <<"A">>, Some(60), Some(15)),
    ProviderRoute("polyline.encodedPolyline", <<>>, Some(70), Some(35)) }

ProviderReplies == UNION {[1..n -> ProviderRouteSet] : n \in 0..MaxProviderRoutes}

\* The values of prefer a request carries: none, the three tags, another
\* spelling, another word.
Prefers == {"", "safest", "fastest", "shortest", "FASTEST", "scenic"}

HandlerStores ==
  { <<>>, <<manualDoc("a1", Factors800), manualDoc("a2", Factors300)>> }

InitHandler ==
  /\ ScoreIdle
  /\ store \in HandlerStores
  /\ cmp = [p \in CompareProcs |-> idleCompare]
  /\ man = [m \in ManualProcs |-> idleManual]
  /\ pass = [k \in PassProcs |-> idlePass]
  /\ stations = Stations
  /\ req = [p \in CompareProcs |-> idleReq]
  /\ auth = idleAuth

NextHandler ==
  \/ req["r1"].pc = "idle" /\ \E origin \in BOOLEAN, destination \in BOOLEAN,
                                 single \in BOOLEAN, prefer \in Prefers :
       HandlerStart("r1", origin, destination, single, prefer)
  \/ req["r1"].pc = "provider" /\ \E routes \in ProviderReplies : ProviderReply("r1", routes)
  \/ ProviderError("r1")
  \/ EnsureFind("r1")
  \/ UpsertMatch("r1")
  \/ UpsertInsert("r1")
  \/ Refetch("r1")
  \/ Respond("r1")

SpecHandler == InitHandler /\ [][NextHandler]_vars

(***************************************************************************)
(* Claims about the POST /compare handler (checked under SpecHandler)      *)
(***************************************************************************)

Answered(p, status) == req[p].pc = "done" /\ req[p].status = status

Holders(out, t) == {i \in 1..Len(out) : HasTag(out[i], t)}

\* C11: in single-selection mode with preference p among safest, fastest and
\* shortest the response is the route holding tag p; when no route holds p, or
\* p is not given, it is the route tagged "safest"; when no route is tagged
\* "safest" it is the first route of the list.
C11_SingleSelection ==
  \A p \in CompareProcs :
    (Answered(p, 200) /\ req[p].single /\ req[p].prefer \in {"", "safest", "fastest", "shortest"})
    => LET out    == cmp[p].out
           route  == req[p].response.route
           wanted == IF req[p].prefer # "" /\ Holders(out, req[p].prefer) # {}
                     THEN Holders(out, req[p].prefer)
                     ELSE IF Holders(out, "safest") # {} THEN Holders(out, "safest")
                     ELSE IF out # <<>> THEN {1}
                     ELSE {}
       IN  /\ req[p].response.kind = "route"
           /\ IF wanted = {} THEN route = None
              ELSE \A i \in wanted : route = Some(out[i])

\* The fastest route is not the safest one, and the request prefers the fastest.
C11_Witness ==
  /\ Answered("r1", 200) /\ req["r1"].single /\ req["r1"].prefer = "fastest"
  /\ \E i \in Holders(cmp["r1"].out, "fastest") :
       /\ ~HasTag(cmp["r1"].out[i], "safest")
       /\ req["r1"].response.route = Some(cmp["r1"].out[i])

\* C12: a request with origin or destination missing is answered 400 before
\* the provider or the store is contacted; a request whose provider answers
\* with zero routes is answered 404; in both cases no cell record is created
\* or modified.
C12_RejectedWithoutEffect ==
  \A p \in CompareProcs :
    /\ (req[p].pc # "idle" /\ (~req[p].origin \/ ~req[p].destination))
       => /\ Answered(p, 400)
          /\ req[p].called = 0
    /\ (req[p].replied /\ req[p].routes = <<>>) => Answered(p, 404)
    /\ (Answered(p, 400) \/ Answered(p, 404))
       => /\ cmp[p] = idleCompare
          /\ store \in HandlerStores

C12_Witness ==
  /\ Answered("r1", 404)
  /\ req["r1"].called = 1
  /\ store # <<>>

\* The provider's routes the handler keeps: those with a polyline field
\* holding a non-empty string.
Extractable(routes) ==
  SelectSeq(routes, LAMBDA r : r.field \in PolylineFields /\ r.text # <<>>)

\* C16: a provider route without any encoded polyline field is dropped and the
\* request still succeeds: every other route is normalized, scored and
\* returned, in the provider's order.
C16_RouteWithoutPolylineDropped ==
  \A p \in CompareProcs :
    (req[p].pc = "done" /\ req[p].replied /\ req[p].routes # <<>>)
    => /\ req[p].status = 200
       /\ ~req[p].single =>
            LET kept == Extractable(req[p].routes)
                out  == req[p].response.routes
            IN  /\ Len(out) = Len(kept)
                /\ \A i \in 1..Len(out) :
                     /\ out[i].distance = kept[i].distanceMeters
                     /\ out[i].color \in {"gray", "green", "yellow", "red"}
                     /\ out[i].decoded_point_count = Len(tryDecodePolyline(kept[i].text).pts)

\* A route without a polyline field comes first, and the one after it is returned.
C16_Witness ==
  /\ Answered("r1", 200) /\ ~req["r1"].single
  /\ Len(req["r1"].routes) = 2
  /\ req["r1"].routes[1].field = "none"
  /\ Len(req["r1"].response.routes) = 1
  /\ req["r1"].response.routes[1].distance = req["r1"].routes[2].distanceMeters

\* No attempt of the recovery reads points from the text.
Undecodable(text) ==
  /\ tryDecode(text) = None
  /\ tryDecode(collapseBackslashes(stripBraces(text))) = None
  /\ jsonUnescape(text) # None => tryDecode(Val(jsonUnescape(text))) = None

\* C17: a route whose polyline no recovery attempt decodes is kept in the
\* result with no point and no covered cell, is scored "N/A", and creates no
\* cell.
C17_UndecodableRouteKept ==
  \A p \in CompareProcs :
    (Answered(p, 200) /\ ~req[p].single)
    => LET kept == Extractable(req[p].routes)
           out  == req[p].response.routes
       IN  /\ Len(out) = Len(kept)
           /\ \A i \in 1..Len(out) :
                Undecodable(kept[i].text)
                => /\ out[i].decoded_point_count = 0
                   /\ out[i].areaIds = <<>>
                   /\ out[i].safety_score = None
                   /\ out[i].color = "gray"
                   /\ out[i].created_cells_count = 0
           /\ (\A i \in 1..Len(kept) : Undecodable(kept[i].text))
              => /\ cmp[p].hashArray = <<>>
                 /\ store \in HandlerStores

\* An undecodable route is returned next to a scored one.
C17_Witness ==
  /\ Answered("r1", 200) /\ ~req["r1"].single
  /\ Len(req["r1"].response.routes) = 2
  /\ Undecodable(req["r1"].routes[1].text)
  /\ req["r1"].response.routes[1].safety_score = None
  /\ IsSome(req["r1"].response.routes[2].safety_score)

\* C18: a route whose polyline no recovery attempt decodes is dropped from the
\* result list, and the other routes of the batch are still processed.
C18_UndecodableRouteDropped ==
  \A p \in CompareProcs :
    (Answered(p, 200) /\ ~req[p].single)
    => LET kept == SelectSeq(Extractable(req[p].routes), LAMBDA r : ~Undecodable(r.text))
           out  == req[p].response.routes
       IN  /\ Len(out) = Len(kept)
           /\ \A i \in 1..Len(out) : out[i].distance = kept[i].distanceMeters

(***************************************************************************)
(* Claim about a mapping pass whose writes fail (checked under SpecPolice) *)
(***************************************************************************)

\* C15: when an item or a batch of a live pass's bulk write fails, the
\* response still reports processed equal to the number of cells visited and
\* updated equal to the number of records the pass modified.
C15_CountsAfterWriteFailure ==
  \A k \in PassProcs :
    (pass[k].pc = "done" /\ ~pass[k].dry /\ pass[k].failures > 0)
    => /\ pass[k].status = 200
       /\ IsSome(pass[k].response)
       /\ Val(pass[k].response).processed = Len(pass[k].results)
       /\ Val(pass[k].response).updated = pass[k].applied

(***************************************************************************)
(* SpecDry: a dry pass (k1) and a live pass (k2) over the same collections, *)
(* the store and the station collection answering every call.              *)
(***************************************************************************)

DryStores ==
  { <<>>,
    <<defaultDoc("a1")>>,
    <<manualDoc("a1", Factors800), manualDoc("a2", Factors300)>>,
    <<manualDoc("a1", Factors800), defaultDoc("a1"), bareDoc("a2")>> }

InitDry ==
  /\ ScoreIdle
  /\ store \in DryStores
  /\ cmp = [p \in CompareProcs |-> idleCompare]
  /\ man = [m \in ManualProcs |-> idleManual]
  /\ pass = [k \in PassProcs |-> idlePass]
  /\ stations \in SUBSET Stations
  /\ req = [p \in CompareProcs |-> idleReq]
  /\ auth = idleAuth

NextDry ==
  \/ pass["k1"].pc = "idle" /\ \E ids \in PassIds, limit \in PassLimits :
       PassStart("k1", ids, limit, TRUE)
  \/ pass["k2"].pc = "idle" /\ \E ids \in PassIds, limit \in PassLimits :
       PassStart("k2", ids, limit, FALSE)
  \/ \E k \in PassProcs : PassVisit(k, TRUE)
  \/ \E k \in PassProcs : PassLoopEnd(k)
  \/ \E k \in PassProcs : \E n \in 1..Len(pass[k].todo) : PassWrite(k, n, FALSE)

SpecDry == InitDry /\ [][NextDry]_vars

\* C13: a dry pass returns the per-cell results (nearest placeId, distance,
\* police score) a live pass returns for the same query on the same
\* collections, reports updated = 0, and modifies no record: the store is as
\* it started for as long as no live pass has written.
C13_DryRunSameResultsNoWrite ==
  /\ \A k \in PassProcs :
       (pass[k].pc = "done" /\ pass[k].dry)
       => /\ pass[k].status = 200
          /\ Val(pass[k].response).updated = 0
          /\ pass[k].applied = 0
  /\ (\A k \in PassProcs : ~pass[k].dry => pass[k].applied = 0) => store \in DryStores
  /\ \A d \in PassProcs, l \in PassProcs :
       ( /\ pass[d].pc = "done" /\ pass[d].dry /\ pass[d].status = 200
         /\ pass[l].pc = "done" /\ ~pass[l].dry /\ pass[l].status = 200
         /\ pass[d].query = pass[l].query )
       => /\ Val(pass[d].response).results = Val(pass[l].response).results
          /\ Val(pass[d].response).processed = Val(pass[l].response).processed

\* Both passes are done on the same query, the live one has written, the dry
\* one reports a station for a cell.
C13_Witness ==
  /\ pass["k1"].pc = "done" /\ pass["k1"].dry
  /\ pass["k2"].pc = "done" /\ ~pass["k2"].dry
  /\ pass["k1"].query = pass["k2"].query
  /\ pass["k2"].applied > 0
  /\ \E i \in 1..Len(Val(pass["k1"].response).results) :
       IsSome(Val(pass["k1"].response).results[i].nearest)

(***************************************************************************)
(* SpecFn: one call of a helper, over the arguments of FnCalls.            *)
(***************************************************************************)

\* Distances in meters (Math.round of $geoNear's distance): around every step.
Distances ==
  {0, 1, 200, 249, 250, 251, 499, 500, 501, 999, 1000, 1001,
   1999, 2000, 2001, 3000, 3999, 4000, 4001, 9000}

\* Latitudes and longitudes: the ends of the range, 0, cell borders (even)
\* and cell interiors (odd).
Lats == {0 - LatHalf, 1 - LatHalf, 0 - 40001, 0 - 2, 0 - 1, 0, 1, 2, 65536, 77777, LatHalf - 1, LatHalf}
Lngs == {0 - LonHalf, 1 - LonHalf, 0 - 131072, 0 - 3, 0 - 1, 0, 1, 4, 100001, 199998, LonHalf - 1, LonHalf}

\* Values of incidents and accidents within 0..10.
RiskValues == {0, 1, 2, 5, 8, 10}

\* The other factors of an aggregation call.
BaseFactors ==
  { EmptyFactors,
    [lighting |-> 8, crowd |-> 3, police |-> 6],
    [lighting |-> 10, crowd |-> 10, police |-> 10, incidents |-> 4, accidents |-> 7] }

withFactor(factors, k, v) ==
  [j \in DOMAIN factors \cup {k} |-> IF j = k THEN v ELSE factors[j]]

\* The characters of a provider's polyline text: point characters, a doubled
\* backslash, a \u escape of a point character, braces and a character that
\* is none of these.
TextTokens == PointTokens \cup {"bsbs", "uesc", "{", "}", "!"}

\* Texts of up to three characters; a backslash is never followed by another
\* one, which would read as a doubled backslash.
DecodeTexts ==
  { t \in UNION {[1..n -> TextTokens] : n \in 0..3} :
      \A i \in 1..(Len(t) - 1) : t[i] = "bs" => t[i + 1] \notin {"bs", "bsbs"} }

\* Numbers of decoded points and caps of the sampling.
SampleSizes == 0..12
SampleCaps == {1, 2, 3, 5, 12, 40}

\* Factors of a stored cell: none (an imported document), some, all.
CellFactors == BaseFactors \cup {defaultFactors}

FnCalls ==
  {[fn |-> "mapDistanceToPoliceScore", args |-> <<m1, m2>>, ret |-> None] :
     m1 \in Distances, m2 \in Distances}
  \cup {[fn |-> "tryDecodePolyline", args |-> <<t>>, ret |-> None] : t \in DecodeTexts}
  \cup {[fn |-> "sampleIndices", args |-> <<n, m>>, ret |-> None] :
          n \in SampleSizes, m \in SampleCaps}
  \cup {[fn |-> "setObj", args |-> <<f, m1, m2>>, ret |-> None] :
          f \in CellFactors, m1 \in Distances, m2 \in Distances}
  \cup {[fn |-> "encode", args |-> <<lat, lng>>, ret |-> None] : lat \in Lats, lng \in Lngs}
  \cup {[fn |-> "calculateSafetyScore", args |-> <<f, k, lo, hi>>, ret |-> None] :
          f \in BaseFactors, k \in {"incidents", "accidents"},
          lo \in RiskValues, hi \in RiskValues}

InitFn ==
  /\ fIn = EmptyFactors
  /\ fOut = None
  /\ call \in FnCalls
  /\ store = <<>>
  /\ cmp = [p \in CompareProcs |-> idleCompare]
  /\ man = [m \in ManualProcs |-> idleManual]
  /\ pass = [k \in PassProcs |-> idlePass]
  /\ stations = Stations
  /\ req = [p \in CompareProcs |-> idleReq]
  /\ auth = idleAuth

\* mapDistanceToPoliceScore on two distances.
CallMapDistance ==
  /\ call.fn = "mapDistanceToPoliceScore" /\ call.ret = None
  /\ call' = [call EXCEPT !.ret = Some(<<mapDistanceToPoliceScore(call.args[1]),
                                          mapDistanceToPoliceScore(call.args[2])>>)]
  /\ UNCHANGED <<fIn, fOut, storeVars>>

\* encode(lat, lng), then decode_bbox of the id, as the mapping pass does.
CallEncode ==
  /\ call.fn = "encode" /\ call.ret = None
  /\ LET areaId == encode(call.args[1], call.args[2]) IN
       call' = [call EXCEPT !.ret = Some([areaId |-> areaId, bbox |-> decode_bbox(areaId)])]
  /\ UNCHANGED <<fIn, fOut, storeVars>>

\* Both definitions of calculateSafetyScore, on the factors with k at lo and at hi.
CallAggregate ==
  /\ call.fn = "calculateSafetyScore" /\ call.ret = None
  /\ LET low  == withFactor(call.args[1], call.args[2], call.args[3])
         high == withFactor(call.args[1], call.args[2], call.args[4])
     IN  call' = [call EXCEPT !.ret = Some(<<calculateSafetyScore(low), calculateSafetyScore(high),
                                             calculateSafetyScore2(low), calculateSafetyScore2(high)>>)]
  /\ UNCHANGED <<fIn, fOut, storeVars>>

\* tryDecodePolyline on a provider's text.
CallDecode ==
  /\ call.fn = "tryDecodePolyline" /\ call.ret = None
  /\ call' = [call EXCEPT !.ret = Some(tryDecodePolyline(call.args[1]))]
  /\ UNCHANGED <<fIn, fOut, storeVars>>

\* sampleIndices(pts.length, cap).
CallSample ==
  /\ call.fn = "sampleIndices" /\ call.ret = None
  /\ call' = [call EXCEPT !.ret = Some(sampleIndices(call.args[1], call.args[2]))]
  /\ UNCHANGED <<fIn, fOut, storeVars>>

\* setObj of the mapping pass for a cell with the given factors, its nearest
\* station at one distance and at another.
CallSetObj ==
  /\ call.fn = "setObj" /\ call.ret = None
  /\ LET doc  == [areaId |-> "a1", factors |-> call.args[1]]
         near == setObjOf(doc, [placeId |-> "p1", distance_m |-> call.args[2]])
         far  == setObjOf(doc, [placeId |-> "p1", distance_m |-> call.args[3]])
     IN  call' = [call EXCEPT !.ret = Some(<<near, far>>)]
  /\ UNCHANGED <<fIn, fOut, storeVars>>

NextFn ==
  \/ CallMapDistance
  \/ CallEncode
  \/ CallAggregate
  \/ CallDecode
  \/ CallSample
  \/ CallSetObj

SpecFn == InitFn /\ [][NextFn]_vars

(***************************************************************************)
(* Claims about the helpers (checked under SpecFn)                         *)
(***************************************************************************)

Returned(fn) == call.fn = fn /\ IsSome(call.ret)

\* The step function as the specification tables it.
StepTable(m) ==
  CASE m <= 250 -> 10
    [] m > 250 /\ m <= 500 -> 8
    [] m > 500 /\ m <= 1000 -> 6
    [] m > 1000 /\ m <= 2000 -> 4
    [] m > 2000 /\ m <= 4000 -> 2
    [] OTHER -> 0

C19_BBoxContainsPoint ==
  Returned("encode") =>
    LET lat  == call.args[1]
        lng  == call.args[2]
        bbox == Val(call.ret).bbox
    IN  /\ Len(Val(call.ret).areaId) = precision
        /\ bbox[1] <= lat /\ lat <= bbox[3]
        /\ bbox[2] <= lng /\ lng <= bbox[4]
        /\ bbox[3] - bbox[1] = 2
        /\ bbox[4] - bbox[2] = 2

\* A coordinate on the border of two cells, in the south-west quarter.
C19_Witness ==
  /\ Returned("encode")
  /\ call.args = <<0 - 2, 0 - 131072>>
  /\ Val(call.ret).bbox[3] = 0 - 2

\* C20: in every definition of the aggregation, with the other factors
\* fixed, raising incidents or accidents within 0..10 never raises the score.
C20_RiskNeverRaisesScore ==
  Returned("calculateSafetyScore") =>
    (call.args[3] <= call.args[4]
     => /\ Val(call.ret)[2] <= Val(call.ret)[1]
        /\ Val(call.ret)[4] <= Val(call.ret)[3])

(***************************************************************************)
(* SpecPass: one mapping pass, dry or live, over collections that may hold *)
(* a reference written with the schema's other fields; the station query   *)
(* and each write may fail.                                                *)
(***************************************************************************)

\* A cell whose nearestPolice carries every field of the schema.
legacyDoc(h) ==
  [areaId |-> h, score |-> Some(500), factors |-> defaultFactors,
   nearestPolice |-> Some([placeId |-> "p2", name |-> "Station", phone |-> "100",
                           lat |-> 1, lng |-> 2, distance_m |-> 3000])]

PassStores ==
  { <<>>,
    <<legacyDoc("a1")>>,
    <<manualDoc("a1", Factors800), legacyDoc("a2")>>,
    <<bareDoc("a2"), manualDoc("a1", Factors300)>>,
    <<legacyDoc("a1"), defaultDoc("a1"), manualDoc("a2", Factors425)>> }

\* The areaIds query: absent, or a list that may name a cell without a record.
PassIdsWide == PassIds \cup {Some(<<"a2">>), Some(<<"a1", "a2">>)}

InitPass ==
  /\ ScoreIdle
  /\ store \in PassStores
  /\ cmp = [p \in CompareProcs |-> idleCompare]
  /\ man = [m \in ManualProcs |-> idleManual]
  /\ pass = [k \in PassProcs |-> idlePass]
  /\ stations \in SUBSET Stations
  /\ req = [p \in CompareProcs |-> idleReq]
  /\ auth = idleAuth

NextPass ==
  \/ pass["k1"].pc = "idle" /\ \E ids \in PassIdsWide, limit \in PassLimits, dry \in BOOLEAN :
       PassStart("k1", ids, limit, dry)
  \/ \E ok \in BOOLEAN : PassVisit("k1", ok)
  \/ PassLoopEnd("k1")
  \/ \E n \in 1..Len(pass["k1"].todo), fail \in BOOLEAN : PassWrite("k1", n, fail)

SpecPass == InitPass /\ [][NextPass]_vars

\* The number of cell updates a pass has computed: its results with a station.
Computed(k) == Cardinality({i \in 1..Len(pass[k].results) : IsSome(pass[k].results[i].nearest)})

\* C21: when a live pass answers, every cell update it computed has been
\* handed to a bulk write and the server has finished (applied or failed)
\* every op handed over; no response exists while a write is pending.
C21_WritesCompleteBeforeResponse ==
  \A k \in PassProcs :
    /\ pass[k].pc = "done"
       => /\ pass[k].todo = <<>>
          /\ pass[k].completed = pass[k].submitted
          /\ ~pass[k].dry => pass[k].submitted >= Computed(k)
          /\ pass[k].dry => pass[k].submitted = 0
    /\ pass[k].todo # <<>> => pass[k].status = 0 /\ pass[k].response = None

\* A live pass has answered after two updates, one applied and one failed.
C21_Witness ==
  /\ pass["k1"].pc = "done" /\ ~pass["k1"].dry
  /\ Computed("k1") = 2
  /\ pass["k1"].applied = 1 /\ pass["k1"].failures = 1

\* C23: a cell whose station query fails or finds no station does not end
\* the pass: every target cell is visited, counted in processed and reported
\* in results, in the cursor's order.
C23_CellFailureDoesNotAbort ==
  \A k \in PassProcs :
    /\ pass[k].pc = "loop"
       => pass[k].processed + Len(pass[k].cursor) = Len(pass[k].targets)
    /\ pass[k].pc = "done"
       => /\ pass[k].processed = Len(pass[k].targets)
          /\ Len(pass[k].results) = Len(pass[k].targets)
          /\ \A i \in 1..Len(pass[k].targets) :
               pass[k].results[i].areaId = pass[k].targets[i]
          /\ pass[k].status = 200
             => /\ Val(pass[k].response).processed = Len(pass[k].targets)
                /\ Val(pass[k].response).results = pass[k].results

\* The first cell's query failed and the second cell got its station.
C23_Witness ==
  /\ pass["k1"].pc = "done" /\ pass["k1"].status = 200
  /\ Len(pass["k1"].results) = 2
  /\ pass["k1"].results[1].nearest = None
  /\ IsSome(pass["k1"].results[2].nearest)
  /\ stations # {}

\* The fields of the reference a pass writes.
BareReference == {"placeId", "distance_m"}

TargetIndexes(k) ==
  IF IsSome(pass[k].query[1])
  THEN {i \in 1..Len(store) : store[i].areaId \in SeqToSet(Val(pass[k].query[1]))}
  ELSE 1..Min2(pass[k].query[2], Len(store))

\* C28: a step of a pass creates and removes no record; a record it changes
\* is one its query selects, keeps its areaId and every factor but police;
\* and processed counts the selected records only, so a listed id without a
\* record is not counted.
C28_PassFrame ==
  [][ /\ Len(store') = Len(store)
      /\ \A i \in 1..Len(store) :
           store'[i] # store[i]
           => /\ \E k \in PassProcs : i \in TargetIndexes(k)
              /\ store'[i].areaId = store[i].areaId
              /\ DOMAIN store'[i].factors = DOMAIN store[i].factors \cup {"police"}
              /\ \A f \in DOMAIN store[i].factors \ {"police"} :
                   store'[i].factors[f] = store[i].factors[f]
      /\ \A k \in PassProcs :
           pass'[k].pc = "done" => pass'[k].processed = Cardinality(TargetIndexes(k)) ]_vars

\* A pass asked for a1 and a2 found a record for a1 only, and wrote it.
C28_Witness ==
  /\ pass["k1"].pc = "done" /\ pass["k1"].status = 200
  /\ pass["k1"].query[1] = Some(<<"a1", "a2">>)
  /\ pass["k1"].processed = 1 /\ pass["k1"].applied = 1
  /\ Len(store) = 1

(***************************************************************************)
(* Claims about polyline recovery, sampling and the stored police score    *)
(* (checked under SpecFn)                                                  *)
(***************************************************************************)

\* The points of a text of point characters.
pointsOf(str) == [i \in 1..Len(str) |-> cellOfToken(str[i])]

\* A text of point characters only: a clean polyline.
Clean(str) == str # <<>> /\ \A i \in 1..Len(str) : str[i] \in PointTokens

\* The text without enclosing braces, each doubled backslash a single one.
cleanEquivalent(str) ==
  LET inner == IF Len(str) >= 2 /\ str[1] = "{" /\ str[Len(str)] = "}"
               THEN SubSeq(str, 2, Len(str) - 1) ELSE str
  IN  [i \in 1..Len(inner) |-> IF inner[i] = "bsbs" THEN "bs" ELSE inner[i]]

\* C26: a text whose direct decode gives no points and whose clean
\* equivalent (braces stripped, doubled backslashes un-escaped) is a polyline
\* decodes to the points of that equivalent; the attempts are tried in the
\* order direct, cleaned, string-unescaped, the first one with points is the
\* result, and no points come back when all three fail.
C26_RecoveryOrder ==
  Returned("tryDecodePolyline") =>
    LET text == call.args[1]
        r    == Val(call.ret)
        u    == jsonUnescape(text)
    IN  /\ (~Clean(text) /\ Clean(cleanEquivalent(text)))
           => /\ r.pts = pointsOf(cleanEquivalent(text))
              /\ r.encoded = cleanEquivalent(text)
        /\ Clean(text) => r.pts = pointsOf(text) /\ r.encoded = text
        /\ (~Clean(text) /\ ~Clean(cleanEquivalent(text)) /\ IsSome(u) /\ Clean(Val(u)))
           => r.pts = pointsOf(Val(u)) /\ r.encoded = Val(u)
        /\ (~Clean(text) /\ ~Clean(cleanEquivalent(text)) /\ ~(IsSome(u) /\ Clean(Val(u))))
           => r.pts = <<>> /\ r.encoded = text

\* A polyline in braces, one of its backslashes doubled.
C26_Witness ==
  /\ Returned("tryDecodePolyline")
  /\ call.args[1] = <<"{", "bsbs", "}">>
  /\ Len(Val(call.ret).pts) = 1

\* C27: sampling n points with cap m keeps the indices 0, step, 2 * step, ...
\* below n for step = max(1, ceil(n / m)): strictly increasing, within
\* 0..n-1, starting at 0 when n > 0, and at most m of them.
C27_StrideSampling ==
  Returned("sampleIndices") =>
    LET n    == call.args[1]
        m    == call.args[2]
        idx  == Val(call.ret)
        step == IF n <= m THEN 1 ELSE CHOOSE q \in 1..n : (q - 1) * m < n /\ n <= q * m
    IN  /\ \A j \in 1..Len(idx) : idx[j] = (j - 1) * step /\ idx[j] < n
        /\ Len(idx) * step >= n
        /\ \A j \in 1..(Len(idx) - 1) : idx[j] < idx[j + 1]
        /\ n > 0 => Len(idx) >= 1 /\ idx[1] = 0
        /\ n = 0 => idx = <<>>
        /\ Len(idx) <= m

\* Twelve points under a cap of five are sampled with stride three.
C27_Witness ==
  /\ Returned("sampleIndices")
  /\ call.args = <<12, 5>>
  /\ Val(call.ret) = <<0, 3, 6, 9>>

\* C29: with the other factors of the cell fixed, the score a pass stores
\* for a longer distance to the nearest station is never higher than the
\* score for a shorter one; a cell beyond 4000 m never gets a higher score
\* than one within 4000 m.
C29_ScoreNonIncreasingInDistance ==
  Returned("setObj") =>
    (call.args[2] <= call.args[3]
     => Val(call.ret)[2].score <= Val(call.ret)[1].score)

(***************************************************************************)
(* SpecRace: two live mapping passes interleaved at their awaits, over the *)
(* same collections; the station collection does not change.               *)
(***************************************************************************)

\* Collections with one record per cell.
RaceStores ==
  { <<defaultDoc("a1")>>,
    <<manualDoc("a1", Factors800), legacyDoc("a2")>>,
    <<bareDoc("a2"), manualDoc("a1", Factors300)>> }

InitRace ==
  /\ ScoreIdle
  /\ store \in RaceStores
  /\ cmp = [p \in CompareProcs |-> idleCompare]
  /\ man = [m \in ManualProcs |-> idleManual]
  /\ pass = [k \in PassProcs |-> idlePass]
  /\ stations \in SUBSET Stations
  /\ req = [p \in CompareProcs |-> idleReq]
  /\ auth = idleAuth

NextRace ==
  \/ \E k \in PassProcs :
       pass[k].pc = "idle" /\ \E ids \in PassIds, limit \in PassLimits :
         PassStart(k, ids, limit, FALSE)
  \/ \E k \in PassProcs, ok \in BOOLEAN : PassVisit(k, ok)
  \/ \E k \in PassProcs : PassLoopEnd(k)
  \/ \E k \in PassProcs : \E n \in 1..Len(pass[k].todo), fail \in BOOLEAN : PassWrite(k, n, fail)

SpecRace == InitRace /\ [][NextRace]_vars

\* The cells some pass has queued an update for.
Touched == UNION {SeqToSet([j \in 1..Len(pass[k].ops) |-> pass[k].ops[j].areaId]) : k \in PassProcs}

\* The collection a single pass leaves that updates the cells of ids in s0.
afterSinglePass(s0, ids) ==
  [i \in 1..Len(s0) |->
     IF s0[i].areaId \in ids
     THEN applySet(s0[i], setObjOf(s0[i], Val(findNearestPolice(s0[i].areaId, TRUE))))
     ELSE s0[i]]

BatchStore == [i \in 1..(batchSize + 1) |-> defaultDoc(ToString(i))]
BatchLimit == batchSize + 1
RejectedIds == {ToString(batchSize)}

InitBatch ==
  /\ ScoreIdle
  /\ store = BatchStore
  /\ cmp = [p \in CompareProcs |-> idleCompare]
  /\ man = [m \in ManualProcs |-> idleManual]
  /\ pass = [k \in PassProcs |-> idlePass]
  /\ stations = Stations
  /\ req = [p \in CompareProcs |-> idleReq]
  /\ auth = idleAuth

NextBatch ==
  \/ PassStart("k1", None, BatchLimit, FALSE)
  \/ PassVisit("k1", TRUE)
  \/ PassLoopEnd("k1")
  \/ /\ pass["k1"].todo # <<>>
     /\ \E fail \in (IF pass["k1"].todo[1].areaId \in RejectedIds THEN BOOLEAN ELSE {FALSE}) :
          PassWrite("k1", 1, fail)

SpecBatch == InitBatch /\ [][NextBatch]_vars

\* C22: nothing is retried within one request: the ops a pass has handed to
\* bulkWrite never outnumber the cell updates it has computed, also after a
\* bulk write has failed, and the route provider is called at most once.
C22_NoRetries ==
  /\ \A k \in PassProcs : pass[k].submitted <= Computed(k)
  /\ \A p \in CompareProcs : req[p].called <= 1

(***************************************************************************)
(* SpecOtp: POST /send-otp requests interleaved at their awaits, while     *)
(* time passes.                                                            *)
(***************************************************************************)

InitOtp ==
  /\ ScoreIdle
  /\ store = <<>>
  /\ cmp = [p \in CompareProcs |-> idleCompare]
  /\ man = [m \in ManualProcs |-> idleManual]
  /\ pass = [k \in PassProcs |-> idlePass]
  /\ stations = Stations
  /\ req = [p \in CompareProcs |-> idleReq]
  /\ auth = idleAuth

NextOtp ==
  \/ \E o \in OtpProcs :
       auth.procs[o].pc = "idle"
       /\ \E identifier \in {None} \cup {Some(id) : id \in Identifiers}, otp \in OtpCodes :
            OtpStart(o, identifier, otp)
  \/ \E o \in OtpProcs, ok \in BOOLEAN : OtpDeleteMany(o, ok)
  \/ \E o \in OtpProcs, ok \in BOOLEAN : OtpCreate(o, ok)
  \/ \E o \in OtpProcs, ok \in BOOLEAN : OtpSend(o, ok)
  \/ \E d \in TickSteps : Tick(d)

SpecOtp == InitOtp /\ [][NextOtp]_vars

\* A request that has been answered with the given status.
OtpAnswered(a, o, status) == a.procs[o].pc = "done" /\ a.procs[o].status = status

\* C30: in every interleaving of send-otp requests, two accepted requests
\* for the same identifier lie at least 60 seconds apart, and a request
\* answered 429 leaves the OTP collection and the lastSent map as they were.
C30_RateLimit ==
  [][ /\ \A o1 \in OtpProcs, o2 \in OtpProcs :
           ( /\ o1 # o2
             /\ OtpAnswered(auth', o1, 200) /\ OtpAnswered(auth', o2, 200)
             /\ auth'.procs[o1].identifier = auth'.procs[o2].identifier
             /\ auth'.procs[o1].now <= auth'.procs[o2].now )
           => auth'.procs[o2].now - auth'.procs[o1].now >= windowMs
      /\ \A o \in OtpProcs :
           (~OtpAnswered(auth, o, 429) /\ OtpAnswered(auth', o, 429))
           => auth'.otps = auth.otps /\ auth'.lastSent = auth.lastSent ]_vars

====
